---- MODULE Spec2Model ----
(***************************************************************************)
(* A model of the core of rsdrav: the frame differ (render/diff.rs over    *)
(* render/buffer.rs), the reactive primitives Signal, Derived and Store    *)
(* (state/*.rs), the EventRouter (event_router.rs), the FocusManager       *)
(* (focus.rs) and the App frame loop (app/mod.rs, render/renderer.rs).     *)
(* Every subsystem has its own specification over the module's variables;  *)
(* the variables of the other subsystems stay at their initial values.     *)
(***************************************************************************)
EXTENDS Integers, Sequences, FiniteSets, TLC

VARIABLES
    \* ---- differ (render/diff.rs, render/buffer.rs)
    oldBuf,      \* the `old` Buffer: [width, height, cells]
    newBuf,      \* the `new` Buffer
    dirty,       \* the Vec<DirtyRegion> last returned by compute_diff
    diffed,      \* TRUE once compute_diff has returned
    edits,       \* number of Buffer::set calls made so far
    \* ---- Signal (state/signal.rs)
    value,       \* SignalInner::value, the data behind the RwLock
    version,     \* SignalInner::version
    rwWriter,    \* the thread holding value's write guard, or None
    rwReaders,   \* the threads holding a read guard of value
    subscribers, \* SignalInner::subscribers: the ids of the Vec, in order
    next_sub_id, \* SignalInner::next_sub_id
    subsMutex,   \* the thread holding the subscribers mutex, or None
    handles,     \* the subscriber ids whose Subscription (strong Arc) exists
    th,          \* per thread: the call in progress and its locals
    hist,        \* per thread: history of the call in progress (not program state)
    ghost,       \* global history counters (not program state)
    \* ---- Derived (state/derived.rs)
    src,         \* the value of the source Signal the compute closure reads
    deps_version, \* DerivedInner::deps_version
    cached,      \* DerivedInner::cached: <<>> (None) or <<entry>> (Some)
    dth,         \* per thread: the Derived call in progress and its locals
    dghost,      \* history counters of the Derived (not program state)
    \* ---- Store (state/store.rs)
    signals,     \* StoreInner::signals: key -> the signal bound to it, or NoSig
    heap,        \* the signals the store has created: type, value, version
    poisoned,    \* the poison flag of the RwLock around StoreInner::signals
    lockW,       \* the thread holding that lock for writing, or None
    lockR,       \* the threads holding that lock for reading
    sth,         \* per thread: the Store call in progress and its locals
    sghost,      \* history counters of the Store (not program state)
    \* ---- EventRouter (event_router.rs)
    hierarchy,   \* EventRouter::hierarchy: child -> parent, as a set of <<child, parent>>
    handlers,    \* EventRouter::handlers: component -> its Vec<EventHandler>
    next_id,     \* EventRouter::next_id
    routed,      \* <<>>, or <<r>> for the route call made on the router as it is:
                 \* its target, path, log of invoked closures, flags and result
    \* ---- FocusManager (focus.rs)
    components,  \* FocusManager::components: the Vec of [id, order, focusable]
    current,     \* FocusManager::current: NoFocus (None) or the focused id
    focus_next_id, \* FocusManager::next_id
    fghost,      \* history: the last call, what it returned, the focus before it,
                 \* and the run of focus_next calls in progress (not program state)
    \* ---- App (app/mod.rs, render/renderer.rs)
    root,        \* App::root is Some
    app_pc,      \* where App::run is: [mode: "run", "drop" or "done", at: index in the program]
    term,        \* the terminal behind the Backend: [raw, alt, cursor_hidden] and
                 \* what it shows: screen (position -> cell last written), pen, cursor
    should_quit, \* App::should_quit
    first_render, \* Renderer::first_render
    buffer,      \* App::buffer, the back buffer
    prev_buffer, \* App::prev_buffer, the front buffer
    app_locals,  \* locals of run: the event polled, the dirty regions, the result (ret)
    ahist,       \* history of run: the steps of the current frame, the frames begun,
                 \* mount and unmount calls, whether a mode was entered, the
                 \* cleanup calls asked of the backend since the last mode entry,
                 \* a frame step after unmount (not program state)
    \* ---- layout (layout/mod.rs, layout/containers.rs)
    lay_in,      \* the last layout call: its name, receiver and arguments, the build
    lay_out,     \* what the call produced: [panic, val]
    \* ---- Buffer and ViewNode (render/buffer.rs, view/mod.rs)
    canvas,      \* a Buffer: [width, height, cells]
    canvas_op,   \* the last call on it: its name and arguments, the buffer before
                 \* it, what it returned, the calls made so far (not program state)
    \* ---- Renderer (render/renderer.rs)
    rcall,       \* the last Renderer::render call: its arguments, the flag before it,
                 \* the backend calls it made, its result, the calls so far (not program state)
    \* ---- what the subscribers of the Signal were told (history, not program state)
    delivered    \* per subscription id: <<>>, or <<v>> for the value its callback
                 \* was last called with

diffVars == <<oldBuf, newBuf, dirty, diffed, edits>>

sigVars == <<value, version, rwWriter, rwReaders, subscribers, next_sub_id,
             subsMutex, handles, th, hist, ghost>>

derVars == <<src, deps_version, cached, dth, dghost>>

storeVars == <<signals, heap, poisoned, lockW, lockR, sth, sghost>>

routerVars == <<hierarchy, handlers, next_id, routed>>

focusVars == <<components, current, focus_next_id, fghost>>

appVars == <<root, app_pc, term, should_quit, first_render, buffer, prev_buffer,
             app_locals, ahist>>

layVars == <<lay_in, lay_out>>

canvasVars == <<canvas, canvas_op>>

rendVars == <<rcall>>

orderVars == <<delivered>>

vars == <<diffVars, sigVars, derVars, storeVars, routerVars, focusVars, appVars, layVars, canvasVars, rendVars, orderVars>>

None == "None"

\* Option<Color>::None: an absent colour is the empty tuple, a present one <<r, g, b>>
NoColor == <<>>

\* Option<u16>::None of find_changed_spans' `start`
NoStart == -1

(***************************************************************************)
(* Bounds of the model.                                                    *)
(***************************************************************************)
BufWidth == 4
BufHeight == 2
MaxEdits == 2
MaxMutations == 2
MaxSubs == 2
MaxInvalidates == 2
MaxStoreCalls == 3
MaxHandlers == 2
MaxFocusIds == 3
MaxOrder == 1
MaxFrames == 2
MaxAppFocus == 2
MaxItems == 3
MaxBufferCalls == 3
MaxText == 2
MaxRenders == 2
MaxDetachCalls == 5

\* The threads sharing the reactive objects.
Threads == {"t1", "t2"}

(***************************************************************************)
(* theme.rs / buffer.rs: colours, styles and cells.                        *)
(***************************************************************************)
RED == <<255, 0, 0>>

\* Cell::default(): NUL character, empty style.
DefaultCell == [ch |-> 0, fg |-> NoColor, bg |-> NoColor, mods |-> 0]

\* Cell::new(ch)
CellNew(c) == [ch |-> c, fg |-> NoColor, bg |-> NoColor, mods |-> 0]

\* Cell::with_style(ch, style)
CellWithStyle(c, f, b, m) == [ch |-> c, fg |-> f, bg |-> b, mods |-> m]

\* The cells the model writes: 'A' is code point 65.
CellAlphabet ==
    { DefaultCell,
      CellNew(65),
      CellWithStyle(65, RED, NoColor, 0),
      CellWithStyle(65, NoColor, RED, 0) }

\* Buffer::new(width, height)
BufferNew(w, h) ==
    [width |-> w, height |-> h, cells |-> [i \in 1..(w * h) |-> DefaultCell]]

\* Buffer::index (0-based in the code, 1-based sequence here)
BufferIndex(b, x, y) == y * b.width + x + 1

\* Buffer::get: an Option, <<>> when out of bounds and <<cell>> otherwise
BufferGet(b, x, y) ==
    IF x >= b.width \/ y >= b.height THEN <<>> ELSE <<b.cells[BufferIndex(b, x, y)]>>

\* A set that checks the index, not the coordinates
BufferSetIndexChecked(b, x, y, cell) ==
    IF BufferIndex(b, x, y) <= Len(b.cells)
    THEN [b EXCEPT !.cells[BufferIndex(b, x, y)] = cell]
    ELSE b

\* Buffer::set: out-of-bounds writes are silently ignored
BufferSet(b, x, y, cell) ==
    IF x < b.width /\ y < b.height
    THEN [b EXCEPT !.cells[BufferIndex(b, x, y)] = cell]
    ELSE b

\* Buffer::line: the row as a slice, empty when y is out of bounds
BufferLine(b, y) ==
    IF y >= b.height THEN <<>>
    ELSE [i \in 1..b.width |-> b.cells[y * b.width + i]]

(***************************************************************************)
(* 64-bit arithmetic of line_hash.  A u64 is a tuple of four 16-bit limbs, *)
(* least significant first, so that no intermediate value leaves the       *)
(* range of the checker's integers.                                        *)
(***************************************************************************)
Limb == 65536

\* a ^ b on naturals
RECURSIVE BitXor(_, _)
BitXor(a, b) ==
    IF b = 0 THEN a
    ELSE IF a = 0 THEN b
    ELSE (((a % 2) + (b % 2)) % 2) + 2 * BitXor(a \div 2, b \div 2)

\* `v as u64` for a value below 2^32 (a char, a u8)
ToU64(v) == <<v % Limb, v \div Limb, 0, 0>>

\* hash ^= v
U64Xor(h, v) == [i \in 1..4 |-> BitXor(h[i], v[i])]

\* 0xcbf29ce484222325
FnvOffsetBasis == <<8997, 33826, 40164, 52210>>

\* The FNV prime 0x100000001b3 is 2^40 + 0x1b3.
FnvPrimeLow == 435

\* h.wrapping_mul(0x100000001b3) = (h * 0x1b3 + (h << 40)) mod 2^64
WrappingMulPrime(h) ==
    LET t0 == h[1] * FnvPrimeLow
        t1 == h[2] * FnvPrimeLow + (t0 \div Limb)
        t2 == h[3] * FnvPrimeLow + (t1 \div Limb) + (h[1] % 256) * 256
        t3 == h[4] * FnvPrimeLow + (t2 \div Limb) + (h[1] \div 256) + (h[2] % 256) * 256
    IN  <<t0 % Limb, t1 % Limb, t2 % Limb, t3 % Limb>>

\* hash ^= v as u64; hash = hash.wrapping_mul(0x100000001b3)
FnvStep(h, v) == WrappingMulPrime(U64Xor(h, ToU64(v)))

\* The values one cell feeds to the hash: the character, the channels of the
\* foreground if present, those of the background if present, the modifier bits.
CellHashInput(cell) ==
    <<cell.ch>>
    \o (IF cell.fg # NoColor THEN cell.fg ELSE <<>>)
    \o (IF cell.bg # NoColor THEN cell.bg ELSE <<>>)
    \o <<cell.mods>>

RECURSIVE FnvFold(_, _)
FnvFold(h, vs) ==
    IF vs = <<>> THEN h ELSE FnvFold(FnvStep(h, Head(vs)), Tail(vs))

RECURSIVE LineHashFrom(_, _)
LineHashFrom(h, line) ==
    IF line = <<>> THEN h
    ELSE LineHashFrom(FnvFold(h, CellHashInput(Head(line))), Tail(line))

\* line_hash
LineHash(line) == LineHashFrom(FnvOffsetBasis, line)

(***************************************************************************)
(* compute_diff                                                            *)
(***************************************************************************)
\* Rect::new
Rect(x, y, w, h) == [x |-> x, y |-> y, width |-> w, height |-> h]

Min(a, b) == IF a < b THEN a ELSE b

Max(a, b) == IF a > b THEN a ELSE b

\* The loop of find_changed_spans from column x (0-based), `start` the open span.
RECURSIVE SpanScan(_, _, _, _, _, _)
SpanScan(ol, nl, y, x, start, acc) ==
    LET width == Min(Len(ol), Len(nl)) IN
    IF x >= width
    THEN IF start # NoStart
         THEN Append(acc, Rect(start, y, width - start, 1))
         ELSE acc
    ELSE IF ol[x + 1] # nl[x + 1]
         THEN SpanScan(ol, nl, y, x + 1, IF start = NoStart THEN x ELSE start, acc)
         ELSE IF start # NoStart
              THEN SpanScan(ol, nl, y, x + 1, NoStart,
                            Append(acc, Rect(start, y, x - start, 1)))
              ELSE SpanScan(ol, nl, y, x + 1, NoStart, acc)

\* find_changed_spans: pushes the changed spans of row y onto `acc`
FindChangedSpans(ol, nl, y, acc) == SpanScan(ol, nl, y, 0, NoStart, acc)

\* The sort key (r.rect.y, r.rect.x), compared lexicographically
KeyLeq(a, b) == a.y < b.y \/ (a.y = b.y /\ a.x <= b.x)

RECURSIVE InsertSorted(_, _)
InsertSorted(r, s) ==
    IF s = <<>> THEN <<r>>
    ELSE IF KeyLeq(Head(s), r) THEN <<Head(s)>> \o InsertSorted(r, Tail(s))
         ELSE <<r>> \o s

\* sort_by_key: a stable sort
RECURSIVE SortByKey(_)
SortByKey(s) ==
    IF s = <<>> THEN <<>>
    ELSE InsertSorted(s[Len(s)], SortByKey(SubSeq(s, 1, Len(s) - 1)))

\* The loop of merge_adjacent_regions from index i, `current` the open region.
\* A walk that merges only regions that overlap or touch
RECURSIVE MergeWalkTouching(_, _, _, _)
MergeWalkTouching(s, i, curr, merged) ==
    IF i > Len(s) THEN Append(merged, curr)
    ELSE LET next == s[i]
             current_end == curr.x + curr.width
         IN  IF curr.y = next.y /\ next.x <= current_end
             THEN MergeWalkTouching(s, i + 1,
                            [curr EXCEPT !.width =
                                Max(next.x + next.width, current_end) - curr.x],
                            merged)
             ELSE MergeWalkTouching(s, i + 1, next, Append(merged, curr))

RECURSIVE MergeWalk(_, _, _, _)
MergeWalk(s, i, curr, merged) ==
    IF i > Len(s) THEN Append(merged, curr)
    ELSE LET next == s[i]
             current_end == curr.x + curr.width
         IN  IF curr.y = next.y /\ next.x <= current_end + 1
             THEN MergeWalk(s, i + 1,
                            [curr EXCEPT !.width =
                                Max(next.x + next.width, current_end) - curr.x],
                            merged)
             ELSE MergeWalk(s, i + 1, next, Append(merged, curr))

\* merge_adjacent_regions
MergeAdjacentRegions(d) ==
    IF Len(d) <= 1 THEN d
    ELSE LET s == SortByKey(d) IN MergeWalk(s, 2, s[1], <<>>)

\* The row loop of compute_diff
RECURSIVE DiffRows(_, _, _, _)
DiffRows(old, new, y, acc) ==
    IF y >= new.height THEN acc
    ELSE LET old_line == BufferLine(old, y)
             new_line == BufferLine(new, y)
         IN  IF LineHash(old_line) = LineHash(new_line)
             THEN DiffRows(old, new, y + 1, acc)
             ELSE DiffRows(old, new, y + 1,
                           FindChangedSpans(old_line, new_line, y, acc))

\* A compute_diff that always redraws the full screen
ComputeDiffFullScreen(old, new) ==
    <<Rect(0, 0, new.width, new.height)>>

\* compute_diff
ComputeDiff(old, new) ==
    IF old.width # new.width \/ old.height # new.height
    THEN <<Rect(0, 0, new.width, new.height)>>
    ELSE MergeAdjacentRegions(DiffRows(old, new, 0, <<>>))

(***************************************************************************)
(* The differ's state machine: two buffers of equal dimensions are written *)
(* with Buffer::set, then compute_diff(old, new) is called.                *)
(***************************************************************************)
DiffInit ==
    /\ oldBuf = BufferNew(BufWidth, BufHeight)
    /\ newBuf = BufferNew(BufWidth, BufHeight)
    /\ dirty = <<>>
    /\ diffed = FALSE
    /\ edits = 0

DiffFrame == UNCHANGED <<sigVars, derVars, storeVars, routerVars, focusVars, appVars, layVars, canvasVars, rendVars, orderVars>>

\* old.set(x, y, cell); x = width and y = height are the out-of-bounds writes
SetOld ==
    /\ ~diffed
    /\ edits < MaxEdits
    /\ \E x \in 0..BufWidth, y \in 0..BufHeight, c \in CellAlphabet :
           oldBuf' = BufferSet(oldBuf, x, y, c)
    /\ edits' = edits + 1
    /\ UNCHANGED <<newBuf, dirty, diffed>>
    /\ DiffFrame

\* new.set(x, y, cell)
SetNew ==
    /\ ~diffed
    /\ edits < MaxEdits
    /\ \E x \in 0..BufWidth, y \in 0..BufHeight, c \in CellAlphabet :
           newBuf' = BufferSet(newBuf, x, y, c)
    /\ edits' = edits + 1
    /\ UNCHANGED <<oldBuf, dirty, diffed>>
    /\ DiffFrame

\* dirty = compute_diff(&old, &new)
Diff ==
    /\ ~diffed
    /\ dirty' = ComputeDiff(oldBuf, newBuf)
    /\ diffed' = TRUE
    /\ UNCHANGED <<oldBuf, newBuf, edits>>
    /\ DiffFrame

DiffNext == SetOld \/ SetNew \/ Diff

(***************************************************************************)
(* Signal<T> (state/signal.rs), shared by the threads of Threads.  A call  *)
(* is a program: a sequence of steps, each atomic; th[t].pc is the step    *)
(* the thread is about to take.                                            *)
(*   rlock   value.read()               read     clone, drop the guard     *)
(*   wlock   value.write()              store    *guard = new_val; drop    *)
(*   apply   f(&mut *guard); clone; drop the guard                         *)
(*   bump    version.fetch_add(1)                                          *)
(*   nlock   subscribers.lock()         walk     the retain walk; unlock   *)
(*   newid   next_sub_id.fetch_add(1)   push     lock, push, unlock        *)
(***************************************************************************)
NoSub == -1

\* The value Signal::new is given
InitialValue == 0

\* The values set() is called with
SetValues == {10}

\* The closure update() is called with: |val| *val += 1
UpdateFn(v) == v + 1

\* Signal::get
GetProgram == <<"rlock", "read">>

\* set with the version bumped before the value is written
SetProgramBumpFirst == <<"bump", "wlock", "store", "nlock", "walk">>

\* Signal::set followed by Signal::notify
SetProgram == <<"wlock", "store", "bump", "nlock", "walk">>

\* update without the version bump
UpdateProgramNoBump == <<"wlock", "apply", "nlock", "walk">>

\* Signal::update followed by Signal::notify
UpdateProgram == <<"wlock", "apply", "bump", "nlock", "walk">>

\* Signal::subscribe
SubscribeProgram == <<"newid", "push">>

Program(op) ==
    CASE op = "get" -> GetProgram
      [] op = "set" -> SetProgram
      [] op = "update" -> UpdateProgram
      [] op = "subscribe" -> SubscribeProgram
      [] OTHER -> <<>>

IdleLocals ==
    [op |-> "idle", pc |-> 0, new_val |-> 0, i |-> 0, held |-> NoSub, id |-> NoSub,
     outer |-> <<>>]

\* History of a thread.  Of its call in progress: the subscribers subscribed when
\* it began (startSubs), the callbacks it has invoked (inv), the value it wrote
\* (installed), the index of its write among all writes (widx, 0 before it), the
\* version its increment produced (ver, 0 before it), the subscriptions dropped
\* when it locked the subscriber list (walkDropped).  Of what it has observed:
\* the version it last read (obs), the write index of the mutation that had
\* produced that version (obsW), whether it has completed a mutation since
\* (mutated).
IdleHist ==
    [startSubs |-> {}, inv |-> <<>>, installed |-> 0, widx |-> 0, ver |-> 0,
     walkDropped |-> {}, obs |-> 0, obsW |-> 0, mutated |-> FALSE]

\* No callback has been called
OrderInit == delivered = [s \in 0..(MaxSubs - 1) |-> <<>>]

SignalInit ==
    /\ value = InitialValue
    /\ version = 0
    /\ rwWriter = None
    /\ rwReaders = {}
    /\ subscribers = <<>>
    /\ next_sub_id = 0
    /\ subsMutex = None
    /\ handles = {}
    /\ th = [t \in Threads |-> IdleLocals]
    /\ hist = [t \in Threads |-> IdleHist]
    /\ ghost = [started |-> 0, completed |-> 0, writes |-> 0, lastW |-> 0,
                subsStarted |-> 0]

\* The other objects stay as they are
SigRest == UNCHANGED <<diffVars, derVars, storeVars, routerVars, focusVars, appVars, layVars, canvasVars, rendVars>>

SigFrame == SigRest /\ UNCHANGED orderVars

Range(f) == {f[k] : k \in DOMAIN f}

RemoveAt(seq, k) == SubSeq(seq, 1, k - 1) \o SubSeq(seq, k + 1, Len(seq))

AtLabel(t, l) ==
    /\ th[t].op # "idle"
    /\ th[t].pc <= Len(Program(th[t].op))
    /\ Program(th[t].op)[th[t].pc] = l

AtReturn(t) == th[t].op # "idle" /\ th[t].pc > Len(Program(th[t].op))

\* The ids a subscribe call has taken and not yet returned as a Subscription
InSubscribe == {th[t].id : t \in {u \in Threads : th[u].op = "subscribe"}}

\* The ids whose Subscription the caller holds
Owned == handles \ InSubscribe

\* The ids whose Subscription has been dropped
Dropped == {s \in 0..(next_sub_id - 1) : s \notin handles /\ s \notin InSubscribe}

\* A subscriber list of strong references: every entry can always be called
UpgradeAlways(s) == TRUE

\* Weak::upgrade succeeds while a strong reference exists: the Subscription, or
\* the Arc a notification walk holds while it calls the callback.
Upgrade(s) == s \in handles \/ \E t \in Threads : th[t].held = s

\* fetch_add(1, SeqCst) on the version
FetchAddVersion(v) == v + 1

\* A write guard that is never dropped (leaked): the lock stays held
WriteGuardLeaked(t) == t

\* The write guard goes out of scope: the lock is free again
WriteGuardDropped(t) == None

\* An in-place removal that steps over the element that moved into the gap
IndexAfterRemoveSkips(k) == k + 1

\* Vec::retain: after an element is removed the walk goes on at the same index
IndexAfterRemove(k) == k

\* ---- the calls begin
BeginGet(t) ==
    /\ th[t].op = "idle"
    /\ th' = [th EXCEPT ![t] = [IdleLocals EXCEPT !.op = "get", !.pc = 1]]
    /\ UNCHANGED <<value, version, rwWriter, rwReaders, subscribers, next_sub_id,
                   subsMutex, handles, hist, ghost>>
    /\ SigFrame

BeginMutation(t, op, v) ==
    /\ th[t].op = "idle"
    /\ ghost.started < MaxMutations
    /\ th' = [th EXCEPT ![t] = [IdleLocals EXCEPT !.op = op, !.pc = 1, !.new_val = v]]
    /\ hist' = [hist EXCEPT ![t].startSubs = Range(subscribers) \cap Owned]
    /\ ghost' = [ghost EXCEPT !.started = @ + 1]
    /\ UNCHANGED <<value, version, rwWriter, rwReaders, subscribers, next_sub_id,
                   subsMutex, handles>>
    /\ SigFrame

\* sig.set(v)
BeginSet(t) == \E v \in SetValues : BeginMutation(t, "set", v)

\* sig.update(|val| *val += 1)
BeginUpdate(t) == BeginMutation(t, "update", 0)

\* sig.subscribe(callback): Arc::new(callback), Arc::downgrade
BeginSubscribe(t) ==
    /\ th[t].op = "idle"
    /\ ghost.subsStarted < MaxSubs
    /\ th' = [th EXCEPT ![t] = [IdleLocals EXCEPT !.op = "subscribe", !.pc = 1]]
    /\ ghost' = [ghost EXCEPT !.subsStarted = @ + 1]
    /\ UNCHANGED <<value, version, rwWriter, rwReaders, subscribers, next_sub_id,
                   subsMutex, handles, hist>>
    /\ SigFrame

\* sig.version(): one atomic load
ReadVersion(t) ==
    /\ th[t].op = "idle"
    /\ hist' = [hist EXCEPT ![t].obs = version,
                            ![t].obsW = ghost.lastW,
                            ![t].mutated = FALSE]
    /\ UNCHANGED <<value, version, rwWriter, rwReaders, subscribers, next_sub_id,
                   subsMutex, handles, th, ghost>>
    /\ SigFrame

\* drop(subscription): the strong reference of the handle goes away
DropSubscription(t) ==
    /\ th[t].op = "idle"
    /\ \E s \in Owned : handles' = handles \ {s}
    /\ UNCHANGED <<value, version, rwWriter, rwReaders, subscribers, next_sub_id,
                   subsMutex, th, hist, ghost>>
    /\ SigFrame

\* ---- the steps
\* self.inner.value.read().unwrap()
ReadLock(t) ==
    /\ AtLabel(t, "rlock")
    /\ rwWriter = None
    /\ rwReaders' = rwReaders \cup {t}
    /\ th' = [th EXCEPT ![t].pc = @ + 1]
    /\ UNCHANGED <<value, version, rwWriter, subscribers, next_sub_id, subsMutex,
                   handles, hist, ghost>>
    /\ SigFrame

\* .clone(), and the read guard is dropped
ReadClone(t) ==
    /\ AtLabel(t, "read")
    /\ t \in rwReaders
    /\ rwReaders' = rwReaders \ {t}
    /\ th' = [th EXCEPT ![t].pc = @ + 1, ![t].new_val = value]
    /\ UNCHANGED <<value, version, rwWriter, subscribers, next_sub_id, subsMutex,
                   handles, hist, ghost>>
    /\ SigFrame

\* self.inner.value.write().unwrap()
WriteLock(t) ==
    /\ AtLabel(t, "wlock")
    /\ rwWriter = None
    /\ rwReaders = {}
    /\ rwWriter' = t
    /\ th' = [th EXCEPT ![t].pc = @ + 1]
    /\ UNCHANGED <<value, version, rwReaders, subscribers, next_sub_id, subsMutex,
                   handles, hist, ghost>>
    /\ SigFrame

\* The history of a write of the value by thread t: ghost.writes counts the
\* writes, so it is also the index of the write that installed the value.
NoteWrite(t, v) ==
    /\ hist' = [hist EXCEPT ![t].installed = v, ![t].widx = ghost.writes + 1]
    /\ ghost' = [ghost EXCEPT !.writes = @ + 1]

\* set: *guard = new_val.clone(); the guard is dropped at the end of the block
Store(t) ==
    /\ AtLabel(t, "store")
    /\ rwWriter = t
    /\ value' = th[t].new_val
    /\ rwWriter' = WriteGuardDropped(t)
    /\ th' = [th EXCEPT ![t].pc = @ + 1]
    /\ NoteWrite(t, th[t].new_val)
    /\ UNCHANGED <<version, rwReaders, subscribers, next_sub_id, subsMutex, handles>>
    /\ SigFrame

\* update: f(&mut *guard); guard.clone(); the guard is dropped
Apply(t) ==
    /\ AtLabel(t, "apply")
    /\ rwWriter = t
    /\ value' = UpdateFn(value)
    /\ rwWriter' = WriteGuardDropped(t)
    /\ th' = [th EXCEPT ![t].pc = @ + 1, ![t].new_val = UpdateFn(value)]
    /\ NoteWrite(t, UpdateFn(value))
    /\ UNCHANGED <<version, rwReaders, subscribers, next_sub_id, subsMutex, handles>>
    /\ SigFrame

\* self.inner.version.fetch_add(1, Ordering::SeqCst)
Bump(t) ==
    /\ AtLabel(t, "bump")
    /\ version' = FetchAddVersion(version)
    /\ th' = [th EXCEPT ![t].pc = @ + 1]
    /\ hist' = [hist EXCEPT ![t].ver = FetchAddVersion(version)]
    /\ ghost' = [ghost EXCEPT !.lastW = hist[t].widx]
    /\ UNCHANGED <<value, rwWriter, rwReaders, subscribers, next_sub_id, subsMutex,
                   handles>>
    /\ SigFrame

\* notify: self.inner.subscribers.lock().unwrap()
NotifyLock(t) ==
    /\ AtLabel(t, "nlock")
    /\ subsMutex = None
    /\ subsMutex' = t
    /\ th' = [th EXCEPT ![t].pc = @ + 1, ![t].i = 1]
    /\ hist' = [hist EXCEPT ![t].walkDropped = Dropped]
    /\ UNCHANGED <<value, version, rwWriter, rwReaders, subscribers, next_sub_id,
                   handles, ghost>>
    /\ SigFrame

\* retain's closure on the next element: weak.upgrade(); a dead entry is removed
WalkUpgrade(t) ==
    /\ AtLabel(t, "walk")
    /\ subsMutex = t
    /\ th[t].held = NoSub
    /\ th[t].i <= Len(subscribers)
    /\ IF Upgrade(subscribers[th[t].i])
       THEN /\ th' = [th EXCEPT ![t].held = subscribers[th[t].i]]
            /\ UNCHANGED subscribers
       ELSE /\ subscribers' = RemoveAt(subscribers, th[t].i)
            /\ th' = [th EXCEPT ![t].i = IndexAfterRemove(@)]
    /\ UNCHANGED <<value, version, rwWriter, rwReaders, next_sub_id, subsMutex,
                   handles, hist, ghost>>
    /\ SigFrame

\* callback(val) returns; the upgraded Arc is dropped; the element is kept
CallbackReturns(t) ==
    /\ AtLabel(t, "walk")
    /\ subsMutex = t
    /\ th[t].held # NoSub
    /\ hist' = [hist EXCEPT ![t].inv = Append(@, <<th[t].held, th[t].new_val>>)]
    /\ th' = [th EXCEPT ![t].held = NoSub, ![t].i = @ + 1]
    /\ UNCHANGED <<value, version, rwWriter, rwReaders, subscribers, next_sub_id,
                   subsMutex, handles, ghost>>

WalkCall(t) == CallbackReturns(t) /\ SigFrame

\* The same step, with the value the callback was given written down
WalkCallNoted(t) ==
    /\ CallbackReturns(t)
    /\ delivered' = [delivered EXCEPT ![th[t].held] = <<th[t].new_val>>]
    /\ SigRest

\* retain is over; the mutex guard is dropped as notify returns
WalkEnd(t) ==
    /\ AtLabel(t, "walk")
    /\ subsMutex = t
    /\ th[t].held = NoSub
    /\ th[t].i > Len(subscribers)
    /\ subsMutex' = None
    /\ th' = [th EXCEPT ![t].pc = @ + 1]
    /\ UNCHANGED <<value, version, rwWriter, rwReaders, subscribers, next_sub_id,
                   handles, hist, ghost>>
    /\ SigFrame

\* subscribe: self.inner.next_sub_id.fetch_add(1, Ordering::SeqCst)
NewId(t) ==
    /\ AtLabel(t, "newid")
    /\ th' = [th EXCEPT ![t].pc = @ + 1, ![t].id = next_sub_id]
    /\ next_sub_id' = next_sub_id + 1
    /\ UNCHANGED <<value, version, rwWriter, rwReaders, subscribers, subsMutex,
                   handles, hist, ghost>>
    /\ SigFrame

\* subscribe: self.inner.subscribers.lock().unwrap().push((id, weak))
Push(t) ==
    /\ AtLabel(t, "push")
    /\ subsMutex = None
    /\ subscribers' = Append(subscribers, th[t].id)
    /\ handles' = handles \cup {th[t].id}
    /\ th' = [th EXCEPT ![t].pc = @ + 1]
    /\ UNCHANGED <<value, version, rwWriter, rwReaders, next_sub_id, subsMutex,
                   hist, ghost>>
    /\ SigFrame

\* The call returns to its caller
Return(t) ==
    /\ AtReturn(t)
    /\ th' = [th EXCEPT ![t] = IdleLocals]
    /\ IF th[t].op \in {"set", "update"}
       THEN /\ ghost' = [ghost EXCEPT !.completed = @ + 1]
            /\ hist' = [hist EXCEPT ![t] = [IdleHist EXCEPT !.obs = hist[t].obs,
                                                            !.obsW = hist[t].obsW,
                                                            !.mutated = TRUE]]
       ELSE UNCHANGED <<ghost, hist>>
    /\ UNCHANGED <<value, version, rwWriter, rwReaders, subscribers, next_sub_id,
                   subsMutex, handles>>
    /\ SigFrame

\* A std::sync::Mutex whose guard was dropped by a panicking thread
Poisoned == "Poisoned"

\* callback(val) panics inside retain: unwinding drops the upgraded Arc, retain
\* keeps the elements it had not yet passed, and the guard of the subscriber
\* list is dropped during the panic, which poisons the mutex.  The call ends.
WalkPanic(t) ==
    /\ AtLabel(t, "walk")
    /\ subsMutex = t
    /\ th[t].held # NoSub
    /\ subsMutex' = Poisoned
    /\ th' = [th EXCEPT ![t].op = "panicked", ![t].held = NoSub]
    /\ UNCHANGED <<value, version, rwWriter, rwReaders, subscribers, next_sub_id,
                   handles, hist, ghost>>
    /\ SigFrame

\* self.inner.subscribers.lock().unwrap() on the poisoned mutex, in notify and
\* in subscribe: lock() returns Err(PoisonError), unwrap panics, the call ends
LockPoisoned(t) ==
    /\ AtLabel(t, "nlock") \/ AtLabel(t, "push")
    /\ subsMutex = Poisoned
    /\ th' = [th EXCEPT ![t].op = "panicked"]
    /\ UNCHANGED <<value, version, rwWriter, rwReaders, subscribers, next_sub_id,
                   subsMutex, handles, hist, ghost>>
    /\ SigFrame

\* A step of a get call in progress
ReadStep(t) == ReadLock(t) \/ ReadClone(t)

\* A step of a set or update call in progress
MutationStep(t) ==
    \/ WriteLock(t) \/ Store(t) \/ Apply(t) \/ Bump(t)
    \/ NotifyLock(t) \/ WalkUpgrade(t) \/ WalkCall(t) \/ WalkEnd(t)

\* A step of a subscribe call in progress
SubscribeStep(t) == NewId(t) \/ Push(t)

\* Writers, subscribers and drops: the notification side of the signal
SignalNext ==
    \E t \in Threads :
        \/ BeginSet(t) \/ BeginUpdate(t) \/ BeginSubscribe(t) \/ DropSubscription(t)
        \/ MutationStep(t) \/ SubscribeStep(t) \/ Return(t)

\* Readers and writers: get and version against set, update and subscribe
SignalRWNext ==
    \E t \in Threads :
        \/ BeginGet(t) \/ ReadVersion(t) \/ BeginSet(t) \/ BeginUpdate(t)
        \/ BeginSubscribe(t)
        \/ ReadStep(t) \/ MutationStep(t) \/ SubscribeStep(t) \/ Return(t)

\* The signal with subscriber callbacks that may panic; a panicked call is
\* over once its thread has caught the panic (Return)
SignalPanicNext ==
    \E t \in Threads :
        \/ BeginGet(t) \/ BeginSet(t) \/ BeginUpdate(t) \/ BeginSubscribe(t)
        \/ ReadStep(t) \/ MutationStep(t) \/ SubscribeStep(t) \/ Return(t)
        \/ WalkPanic(t) \/ LockPoisoned(t)

\* get against the calls that take the signal's locks: set, update, subscribe
SignalGetNext ==
    \E t \in Threads :
        \/ BeginGet(t) \/ BeginSet(t) \/ BeginUpdate(t) \/ BeginSubscribe(t)
        \/ ReadStep(t) \/ MutationStep(t) \/ SubscribeStep(t) \/ Return(t)

\* A step of a call in progress
Step(t) == ReadStep(t) \/ MutationStep(t) \/ SubscribeStep(t) \/ Return(t)

\* The values the two threads call set with
OrderValues == {10, 20}

\* sig.set(v) with one of two values
BeginSetOrdered(t) == \E v \in OrderValues : BeginMutation(t, "set", v)

\* Concurrent set calls against subscribers whose deliveries are written down
SignalOrderNext ==
    \E t \in Threads :
        \/ BeginSetOrdered(t) \/ BeginSubscribe(t) \/ DropSubscription(t)
        \/ WriteLock(t) \/ Store(t) \/ Bump(t)
        \/ NotifyLock(t) \/ WalkUpgrade(t) \/ WalkCallNoted(t) \/ WalkEnd(t)
        \/ SubscribeStep(t) \/ Return(t)

(***************************************************************************)
(* Re-entrant closures.  A subscriber callback runs inside notify's retain *)
(* while the guard of `subscribers` is alive (signal.rs:73-84); the        *)
(* closure of update runs while the write guard of `value` is alive        *)
(* (signal.rs:58-59).  A closure that holds a clone of the signal may call *)
(* it: the call is a new frame of the same thread, th[t] is that frame and *)
(* th[t].outer holds the frame of the call whose closure is running.  The  *)
(* locks are std::sync locks: they are held by the thread, and lock(),     *)
(* read() and write() on a lock the calling thread already holds do not    *)
(* return: they deadlock or panic.                                         *)
(***************************************************************************)
\* The calls a subscriber callback makes on the signal that notifies it
CallbackOps == {"set", "update", "subscribe"}

\* The frame of a call that a closure of the frame th[t] makes
InnerFrame(t, op, v) ==
    [IdleLocals EXCEPT !.op = op, !.pc = 1, !.new_val = v, !.outer = <<th[t]>>]

\* callback(val) at signal.rs:79, where the callback calls the signal
CallbackCallsSignal(t, op) ==
    /\ th[t].outer = <<>>
    /\ AtLabel(t, "walk")
    /\ subsMutex = t
    /\ th[t].held # NoSub
    /\ \E v \in SetValues : th' = [th EXCEPT ![t] = InnerFrame(t, op, v)]
    /\ UNCHANGED <<value, version, rwWriter, rwReaders, subscribers, next_sub_id,
                   subsMutex, handles, hist, ghost>>
    /\ SigFrame

\* f(&mut *guard) at signal.rs:59, where the closure calls get on the signal
ClosureCallsGet(t) ==
    /\ th[t].outer = <<>>
    /\ AtLabel(t, "apply")
    /\ rwWriter = t
    /\ th' = [th EXCEPT ![t] = InnerFrame(t, "get", 0)]
    /\ UNCHANGED <<value, version, rwWriter, rwReaders, subscribers, next_sub_id,
                   subsMutex, handles, hist, ghost>>
    /\ SigFrame

\* The call of thread t whose closure is running, or its only call
OuterCall(t) == IF th[t].outer = <<>> THEN th[t] ELSE th[t].outer[1]

\* The thread is about to take a lock that a guard of its own outer call holds
SelfLock(t) ==
    /\ th[t].outer # <<>>
    /\ \/ (AtLabel(t, "nlock") \/ AtLabel(t, "push")) /\ subsMutex = t
       \/ (AtLabel(t, "rlock") \/ AtLabel(t, "wlock")) /\ rwWriter = t

\* The build in which taking a held lock again panics: the unwinding drops the
\* guards of the outer call, which poisons the locks it held, and the outer
\* call ends with the panic.  In the other build the thread waits forever;
\* that is no step.
SelfLockPanics(t) ==
    /\ SelfLock(t)
    /\ subsMutex' = IF subsMutex = t THEN Poisoned ELSE subsMutex
    /\ rwWriter' = IF rwWriter = t THEN Poisoned ELSE rwWriter
    /\ th' = [th EXCEPT ![t] = [IdleLocals EXCEPT !.op = "panicked", !.pc = 1]]
    /\ UNCHANGED <<value, version, rwReaders, subscribers, next_sub_id, handles,
                   hist, ghost>>
    /\ SigFrame

\* self.inner.value.read().unwrap() and .write().unwrap() on the poisoned
\* RwLock: Err(PoisonError), unwrap panics, the call ends
ValuePoisoned(t) ==
    /\ AtLabel(t, "rlock") \/ AtLabel(t, "wlock")
    /\ rwWriter = Poisoned
    /\ th' = [th EXCEPT ![t] = [IdleLocals EXCEPT !.op = "panicked", !.pc = 1]]
    /\ UNCHANGED <<value, version, rwWriter, rwReaders, subscribers, next_sub_id,
                   subsMutex, handles, hist, ghost>>
    /\ SigFrame

\* The signal with closures that call the signal they were given to.  Each of
\* these calls comes to a lock of its own thread before it can return.
SignalReentrantNext ==
    \E t \in Threads :
        \/ BeginGet(t) \/ BeginSet(t) \/ BeginUpdate(t) \/ BeginSubscribe(t)
        \/ Step(t)
        \/ \E op \in CallbackOps : CallbackCallsSignal(t, op)
        \/ ClosureCallsGet(t)
        \/ SelfLockPanics(t) \/ ValuePoisoned(t) \/ LockPoisoned(t)

(***************************************************************************)
(* Derived<T> (state/derived.rs), shared by the threads of Threads, over   *)
(* one source signal.  The programs of the calls:                          *)
(*   load     current_ver = deps_version.load()                            *)
(*   check    cached.read(): a hit returns the cached clone                *)
(*   compute  new_val = (self.inner.compute)()                             *)
(*   write    *cached.write() = Some((new_val.clone(), current_ver))       *)
(*   srcset   the caller sets the source signal                            *)
(*   inval    deps_version.fetch_add(1)                                    *)
(* A cache entry and a computed value carry, as history, the deps_version  *)
(* at which their compute call began (epoch), the number of source writes  *)
(* that compute call saw (seen) and the deps_version when the entry was    *)
(* written (wroteAt).                                                      *)
(***************************************************************************)
\* The values the source signal takes: Signal::new(2), then a.set(10)
SrcInitial == 2

SrcValues == {2, 10}

\* The closure of test_derived_basic, move || a.get() + b.get(), with b at 3
Compute(a) == a + 3

\* Derived::get
DerivedGetProgram == <<"load", "check", "compute", "write">>

\* a.set(v); sum.invalidate()
RefreshProgram == <<"srcset", "inval">>

\* sum.invalidate()
InvalidateProgram == <<"inval">>

DProgram(op) ==
    CASE op = "get" -> DerivedGetProgram
      [] op = "refresh" -> RefreshProgram
      [] op = "invalidate" -> InvalidateProgram
      [] OTHER -> <<>>

NoResult == [val |-> 0, epoch |-> -1, seen |-> -1]

\* The locals of a call: current_ver, new_val and the returned value (ret), the
\* value given to a.set (arg); as history the cache as `check` saw it (saw), the
\* deps_version (start) and the source writes covered by completed invalidates
\* (need) when the call began.
DIdle ==
    [op |-> "idle", pc |-> 0, current_ver |-> 0, new_val |-> NoResult,
     ret |-> NoResult, arg |-> 0, saw |-> <<>>, start |-> 0, need |-> 0]

DerivedInit ==
    /\ src = SrcInitial
    /\ deps_version = 0
    /\ cached = <<>>
    /\ dth = [t \in Threads |-> DIdle]
    /\ dghost = [computes |-> 0, srcSeq |-> 0, covered |-> 0, invStarted |-> 0]

DerFrame == UNCHANGED <<diffVars, sigVars, storeVars, routerVars, focusVars, appVars, layVars, canvasVars, rendVars, orderVars>>

DAtLabel(t, l) ==
    /\ dth[t].op # "idle"
    /\ dth[t].pc <= Len(DProgram(dth[t].op))
    /\ DProgram(dth[t].op)[dth[t].pc] = l

DAtReturn(t) == dth[t].op # "idle" /\ dth[t].pc > Len(DProgram(dth[t].op))

\* A cache test that takes any cached value, whatever its version
CacheHitAnyVersion(c, current_ver) == c # <<>>

\* if let Some((ref val, ver)) = *cached { if ver == current_ver { ... } }
CacheHit(c, current_ver) == c # <<>> /\ c[1].ver = current_ver

\* derived.get() is called
BeginDerivedGet(t) ==
    /\ dth[t].op = "idle"
    /\ dth' = [dth EXCEPT ![t] = [DIdle EXCEPT !.op = "get", !.pc = 1,
                                               !.start = deps_version,
                                               !.need = dghost.covered]]
    /\ UNCHANGED <<src, deps_version, cached, dghost>>
    /\ DerFrame

\* a.set(v); derived.invalidate() is called
BeginRefresh(t) ==
    /\ dth[t].op = "idle"
    /\ dghost.invStarted < MaxInvalidates
    /\ \E v \in SrcValues :
           dth' = [dth EXCEPT ![t] = [DIdle EXCEPT !.op = "refresh", !.pc = 1, !.arg = v]]
    /\ dghost' = [dghost EXCEPT !.invStarted = @ + 1]
    /\ UNCHANGED <<src, deps_version, cached>>
    /\ DerFrame

\* derived.invalidate() is called with no source change before it
BeginInvalidate(t) ==
    /\ dth[t].op = "idle"
    /\ dghost.invStarted < MaxInvalidates
    /\ dth' = [dth EXCEPT ![t] = [DIdle EXCEPT !.op = "invalidate", !.pc = 1]]
    /\ dghost' = [dghost EXCEPT !.invStarted = @ + 1]
    /\ UNCHANGED <<src, deps_version, cached>>
    /\ DerFrame

\* let current_ver = self.inner.deps_version.load(Ordering::SeqCst)
LoadVersion(t) ==
    /\ DAtLabel(t, "load")
    /\ dth' = [dth EXCEPT ![t].pc = @ + 1, ![t].current_ver = deps_version]
    /\ UNCHANGED <<src, deps_version, cached, dghost>>
    /\ DerFrame

\* The cache is read under its read lock: a hit returns the clone
CheckCache(t) ==
    /\ DAtLabel(t, "check")
    /\ IF CacheHit(cached, dth[t].current_ver)
       THEN dth' = [dth EXCEPT ![t].pc = Len(DerivedGetProgram) + 1,
                               ![t].saw = cached,
                               ![t].ret = [val |-> cached[1].val,
                                           epoch |-> cached[1].epoch,
                                           seen |-> cached[1].seen]]
       ELSE dth' = [dth EXCEPT ![t].pc = @ + 1, ![t].saw = cached]
    /\ UNCHANGED <<src, deps_version, cached, dghost>>
    /\ DerFrame

\* let new_val = (self.inner.compute)(): the closure reads the source
ComputeValue(t) ==
    /\ DAtLabel(t, "compute")
    /\ dth' = [dth EXCEPT ![t].pc = @ + 1,
                          ![t].new_val = [val |-> Compute(src),
                                          epoch |-> deps_version,
                                          seen |-> dghost.srcSeq]]
    /\ dghost' = [dghost EXCEPT !.computes = @ + 1]
    /\ UNCHANGED <<src, deps_version, cached>>
    /\ DerFrame

\* *self.inner.cached.write().unwrap() = Some((new_val.clone(), current_ver)); new_val
WriteCache(t) ==
    /\ DAtLabel(t, "write")
    /\ cached' = <<[val |-> dth[t].new_val.val, ver |-> dth[t].current_ver,
                    epoch |-> dth[t].new_val.epoch, seen |-> dth[t].new_val.seen,
                    wroteAt |-> deps_version]>>
    /\ dth' = [dth EXCEPT ![t].pc = @ + 1, ![t].ret = dth[t].new_val]
    /\ UNCHANGED <<src, deps_version, dghost>>
    /\ DerFrame

\* a.set(v): the source signal changes
SourceSet(t) ==
    /\ DAtLabel(t, "srcset")
    /\ src' = dth[t].arg
    /\ dth' = [dth EXCEPT ![t].pc = @ + 1]
    /\ dghost' = [dghost EXCEPT !.srcSeq = @ + 1]
    /\ UNCHANGED <<deps_version, cached>>
    /\ DerFrame

\* self.inner.deps_version.fetch_add(1, Ordering::SeqCst)
Invalidate(t) ==
    /\ DAtLabel(t, "inval")
    /\ deps_version' = deps_version + 1
    /\ dth' = [dth EXCEPT ![t].pc = @ + 1]
    /\ dghost' = [dghost EXCEPT !.computes = 0,
                                !.covered = dghost.srcSeq]
    /\ UNCHANGED <<src, cached>>
    /\ DerFrame

\* The call returns to its caller
DerivedReturn(t) ==
    /\ DAtReturn(t)
    /\ dth' = [dth EXCEPT ![t] = DIdle]
    /\ UNCHANGED <<src, deps_version, cached, dghost>>
    /\ DerFrame

DerivedNext ==
    \E t \in Threads :
        \/ BeginDerivedGet(t) \/ BeginRefresh(t) \/ BeginInvalidate(t)
        \/ LoadVersion(t) \/ CheckCache(t) \/ ComputeValue(t) \/ WriteCache(t)
        \/ SourceSet(t) \/ Invalidate(t)
        \/ DerivedReturn(t)

(***************************************************************************)
(* Store (state/store.rs), shared by the threads of Threads.  The map is   *)
(* behind one RwLock; a panic while its write guard is alive poisons it,   *)
(* and lock().unwrap() on a poisoned lock panics.  The programs:           *)
(*   wlock     self.inner.signals.write().unwrap()                         *)
(*   rlock     self.inner.signals.read().unwrap()                          *)
(*   lookup    the body of get_or_create under the write guard             *)
(*   find      the body of get under the read guard                        *)
(*   remove    signals.remove(key).is_some()                               *)
(*   sigwrite  Signal::set: *value.write() = new_val                       *)
(*   sigbump   Signal::set: version.fetch_add(1); the signals of the store *)
(*             have no subscribers here, so the walk of notify() is empty  *)
(***************************************************************************)
StoreKeys == {"count"}

StoreTypes == {"i32", "String"}

NoSig == -1

\* The values of each type the calls pass: 42 and 999 for i32, one String
\* (written as a number apart from the i32 values)
ValuesOf(ty) == IF ty = "i32" THEN {42, 999} ELSE {101}

GetOrCreateProgram == <<"wlock", "lookup">>

StoreGetProgram == <<"rlock", "find">>

StoreSetProgram == <<"wlock", "lookup", "sigwrite", "sigbump">>

RemoveProgram == <<"wlock", "remove">>

\* sig.set(v) on a handle obtained from the store
HandleSetProgram == <<"sigwrite", "sigbump">>

ClearProgram == <<"wlock", "clear">>

ContainsProgram == <<"rlock", "has">>

\* sig.subscribe(callback) on a handle obtained from the store
HandleSubscribeProgram == <<"sigpush">>

SProgram(op) ==
    CASE op = "get_or_create" -> GetOrCreateProgram
      [] op = "get" -> StoreGetProgram
      [] op = "set" -> StoreSetProgram
      [] op = "remove" -> RemoveProgram
      [] op = "handle_set" -> HandleSetProgram
      [] op = "clear" -> ClearProgram
      [] op = "contains" -> ContainsProgram
      [] op = "handle_subscribe" -> HandleSubscribeProgram
      [] OTHER -> <<>>

\* The locals of a call: its arguments key, ty (the type parameter T) and arg
\* (default or value), the signal it holds (sig), how it ended (out: "ok",
\* "some", "none", "panic_mismatch", "panic_poison"); as history whether the
\* key was absent when the call began and the removals done when the call
\* looked the key up.
SIdle ==
    [op |-> "idle", pc |-> 0, key |-> "count", ty |-> "i32", arg |-> 0,
     sig |-> NoSig, out |-> "", beganAbsent |-> FALSE, gen |-> 0]

StoreInit ==
    /\ signals = [k \in StoreKeys |-> NoSig]
    /\ heap = <<>>
    /\ poisoned = FALSE
    /\ lockW = None
    /\ lockR = {}
    /\ sth = [t \in Threads |-> SIdle]
    /\ sghost = [calls |-> 0, created |-> 0, removed |-> 0]

StoreFrame == UNCHANGED <<diffVars, sigVars, derVars, routerVars, focusVars, appVars, layVars, canvasVars, rendVars, orderVars>>

SAtLabel(t, l) ==
    /\ sth[t].op # "idle"
    /\ sth[t].pc <= Len(SProgram(sth[t].op))
    /\ SProgram(sth[t].op)[sth[t].pc] = l

SAtReturn(t) == sth[t].op # "idle" /\ sth[t].pc > Len(SProgram(sth[t].op))

\* A lookup that finds no key bound
BoundNever(k) == FALSE

\* if let Some(existing) = signals.get(key)
Bound(k) == signals[k] # NoSig

\* existing.downcast_ref::<Signal<T>>() is Some
Downcast(k, ty) == heap[signals[k]].ty = ty

\* The call is made: store.op(key, ...) with type parameter ty, as one of at
\* most `max` calls
BeginStoreCallOf(max, t, op, k, ty, v) ==
    /\ sth[t].op = "idle"
    /\ sghost.calls < max
    /\ sth' = [sth EXCEPT ![t] = [SIdle EXCEPT !.op = op, !.pc = 1, !.key = k,
                                               !.ty = ty, !.arg = v,
                                               !.beganAbsent = ~Bound(k)]]
    /\ sghost' = [sghost EXCEPT !.calls = @ + 1]
    /\ UNCHANGED <<signals, heap, poisoned, lockW, lockR>>
    /\ StoreFrame

BeginStoreCall(t, op, k, ty, v) == BeginStoreCallOf(MaxStoreCalls, t, op, k, ty, v)

BeginGetOrCreate(t) ==
    \E k \in StoreKeys, ty \in StoreTypes : \E v \in ValuesOf(ty) :
        BeginStoreCall(t, "get_or_create", k, ty, v)

BeginStoreGet(t) ==
    \E k \in StoreKeys, ty \in StoreTypes : BeginStoreCall(t, "get", k, ty, 0)

BeginStoreSet(t) ==
    \E k \in StoreKeys, ty \in StoreTypes : \E v \in ValuesOf(ty) :
        BeginStoreCall(t, "set", k, ty, v)

BeginRemove(t) ==
    \E k \in StoreKeys : BeginStoreCall(t, "remove", k, "i32", 0)

\* sig.set(v) through a handle some earlier call returned
BeginHandleSet(t) ==
    /\ sth[t].op = "idle"
    /\ sghost.calls < MaxStoreCalls
    /\ \E g \in 1..Len(heap) : \E v \in ValuesOf(heap[g].ty) :
           sth' = [sth EXCEPT ![t] = [SIdle EXCEPT !.op = "handle_set", !.pc = 1,
                                                   !.ty = heap[g].ty, !.arg = v,
                                                   !.sig = g]]
    /\ sghost' = [sghost EXCEPT !.calls = @ + 1]
    /\ UNCHANGED <<signals, heap, poisoned, lockW, lockR>>
    /\ StoreFrame

\* The call unwinds with a panic
Panicked(t, how) == [sth EXCEPT ![t].pc = Len(SProgram(sth[t].op)) + 1, ![t].out = how]

\* self.inner.signals.write().unwrap()
StoreWriteLock(t) ==
    /\ SAtLabel(t, "wlock")
    /\ lockW = None /\ lockR = {}
    /\ IF poisoned
       THEN sth' = Panicked(t, "panic_poison") /\ UNCHANGED lockW
       ELSE sth' = [sth EXCEPT ![t].pc = @ + 1] /\ lockW' = t
    /\ UNCHANGED <<signals, heap, poisoned, lockR, sghost>>
    /\ StoreFrame

\* self.inner.signals.read().unwrap()
StoreReadLock(t) ==
    /\ SAtLabel(t, "rlock")
    /\ lockW = None
    /\ IF poisoned
       THEN sth' = Panicked(t, "panic_poison") /\ UNCHANGED lockR
       ELSE sth' = [sth EXCEPT ![t].pc = @ + 1] /\ lockR' = lockR \cup {t}
    /\ UNCHANGED <<signals, heap, poisoned, lockW, sghost>>
    /\ StoreFrame

\* The body of get_or_create under the write guard; the guard is dropped at the
\* return, and by the unwinding of the panic, which poisons the lock.
Lookup(t) ==
    /\ SAtLabel(t, "lookup")
    /\ lockW = t
    /\ lockW' = None
    /\ LET k == sth[t].key IN
       IF Bound(k)
       THEN IF Downcast(k, sth[t].ty)
            THEN /\ sth' = [sth EXCEPT ![t].pc = @ + 1, ![t].sig = signals[k],
                                       ![t].out = "ok", ![t].gen = sghost.removed]
                 /\ UNCHANGED <<signals, heap, poisoned, sghost>>
            ELSE /\ sth' = Panicked(t, "panic_mismatch")
                 /\ poisoned' = TRUE
                 /\ UNCHANGED <<signals, heap, sghost>>
       ELSE /\ heap' = Append(heap, [ty |-> sth[t].ty, value |-> sth[t].arg, version |-> 0,
                                  subs |-> <<>>])
            /\ signals' = [signals EXCEPT ![k] = Len(heap) + 1]
            /\ sth' = [sth EXCEPT ![t].pc = @ + 1, ![t].sig = Len(heap) + 1,
                                  ![t].out = "ok", ![t].gen = sghost.removed]
            /\ sghost' = [sghost EXCEPT !.created = @ + 1]
            /\ UNCHANGED poisoned
    /\ UNCHANGED lockR
    /\ StoreFrame

\* The body of get under the read guard
Find(t) ==
    /\ SAtLabel(t, "find")
    /\ t \in lockR
    /\ lockR' = lockR \ {t}
    /\ LET k == sth[t].key IN
       IF Bound(k) /\ Downcast(k, sth[t].ty)
       THEN sth' = [sth EXCEPT ![t].pc = @ + 1, ![t].out = "some",
                               ![t].sig = signals[k]]
       ELSE sth' = [sth EXCEPT ![t].pc = @ + 1, ![t].out = "none"]
    /\ UNCHANGED <<signals, heap, poisoned, lockW, sghost>>
    /\ StoreFrame

\* self.inner.signals.write().unwrap().remove(key).is_some()
RemoveKey(t) ==
    /\ SAtLabel(t, "remove")
    /\ lockW = t
    /\ lockW' = None
    /\ signals' = [signals EXCEPT ![sth[t].key] = NoSig]
    /\ sth' = [sth EXCEPT ![t].pc = @ + 1,
                          ![t].out = IF Bound(sth[t].key) THEN "some" ELSE "none"]
    /\ sghost' = [sghost EXCEPT !.removed = IF Bound(sth[t].key) THEN @ + 1 ELSE @]
    /\ UNCHANGED <<heap, poisoned, lockR>>
    /\ StoreFrame

\* Signal::set on the handle: *self.inner.value.write().unwrap() = new_val
SigWrite(t) ==
    /\ SAtLabel(t, "sigwrite")
    /\ heap' = [heap EXCEPT ![sth[t].sig].value = sth[t].arg]
    /\ sth' = [sth EXCEPT ![t].pc = @ + 1]
    /\ UNCHANGED <<signals, poisoned, lockW, lockR, sghost>>
    /\ StoreFrame

\* Signal::set on the handle: self.inner.version.fetch_add(1, Ordering::SeqCst)
SigBump(t) ==
    /\ SAtLabel(t, "sigbump")
    /\ heap' = [heap EXCEPT ![sth[t].sig].version = @ + 1]
    /\ sth' = [sth EXCEPT ![t].pc = @ + 1, ![t].out = "ok"]
    /\ UNCHANGED <<signals, poisoned, lockW, lockR, sghost>>
    /\ StoreFrame

\* The call returns to its caller, or its panic has unwound
StoreReturn(t) ==
    /\ SAtReturn(t)
    /\ sth' = [sth EXCEPT ![t] = SIdle]
    /\ UNCHANGED <<signals, heap, poisoned, lockW, lockR, sghost>>
    /\ StoreFrame

StoreNext ==
    \E t \in Threads :
        \/ BeginGetOrCreate(t) \/ BeginStoreGet(t) \/ BeginStoreSet(t)
        \/ BeginRemove(t) \/ BeginHandleSet(t)
        \/ StoreWriteLock(t) \/ StoreReadLock(t)
        \/ Lookup(t) \/ Find(t) \/ RemoveKey(t)
        \/ SigWrite(t) \/ SigBump(t)
        \/ StoreReturn(t)

(***************************************************************************)
(* The store with remove, clear and contains against handles that outlive  *)
(* the binding of their key.  A signal of the store keeps its subscriber   *)
(* list (subs: the ids Signal::subscribe gave out, in the order pushed);   *)
(* the subscriptions stay alive, so the walk of notify() calls each        *)
(* callback and changes nothing of the signal.                             *)
(***************************************************************************)
\* A clear that leaves the map as it is
ClearedNothing == signals

\* HashMap::clear: no key is bound
ClearedSignals == [k \in StoreKeys |-> NoSig]

\* The keys bound in the map
BoundKeys == {k \in StoreKeys : Bound(k)}

\* A call on the store
BeginDetachCall(t) ==
    \E k \in StoreKeys :
        \/ BeginStoreCallOf(MaxDetachCalls, t, "get_or_create", k, "i32", 42)
        \/ BeginStoreCallOf(MaxDetachCalls, t, "set", k, "i32", 999)
        \/ BeginStoreCallOf(MaxDetachCalls, t, "remove", k, "i32", 0)
        \/ BeginStoreCallOf(MaxDetachCalls, t, "clear", k, "i32", 0)
        \/ BeginStoreCallOf(MaxDetachCalls, t, "contains", k, "i32", 0)

\* sig.set(7) or sig.subscribe(callback) through a handle some earlier call
\* returned
BeginHandleCall(t) ==
    /\ sth[t].op = "idle"
    /\ sghost.calls < MaxDetachCalls
    /\ \E g \in 1..Len(heap), op \in {"handle_set", "handle_subscribe"} :
           sth' = [sth EXCEPT ![t] = [SIdle EXCEPT !.op = op, !.pc = 1,
                                                   !.ty = heap[g].ty, !.arg = 7,
                                                   !.sig = g]]
    /\ sghost' = [sghost EXCEPT !.calls = @ + 1]
    /\ UNCHANGED <<signals, heap, poisoned, lockW, lockR>>
    /\ StoreFrame

\* self.inner.signals.write().unwrap().clear()
ClearAll(t) ==
    /\ SAtLabel(t, "clear")
    /\ lockW = t
    /\ lockW' = None
    /\ signals' = ClearedSignals
    /\ sth' = [sth EXCEPT ![t].pc = @ + 1, ![t].out = "ok"]
    /\ sghost' = [sghost EXCEPT !.removed = @ + Cardinality(BoundKeys)]
    /\ UNCHANGED <<heap, poisoned, lockR>>
    /\ StoreFrame

\* self.inner.signals.read().unwrap().contains_key(key)
Has(t) ==
    /\ SAtLabel(t, "has")
    /\ t \in lockR
    /\ lockR' = lockR \ {t}
    /\ sth' = [sth EXCEPT ![t].pc = @ + 1,
                          ![t].out = IF Bound(sth[t].key) THEN "true" ELSE "false"]
    /\ UNCHANGED <<signals, heap, poisoned, lockW, sghost>>
    /\ StoreFrame

\* Signal::subscribe on the handle: next_sub_id.fetch_add(1), and the entry is
\* pushed on the subscriber list of that signal
SigPush(t) ==
    /\ SAtLabel(t, "sigpush")
    /\ heap' = [heap EXCEPT ![sth[t].sig].subs = Append(@, Len(@))]
    /\ sth' = [sth EXCEPT ![t].pc = @ + 1, ![t].out = "ok"]
    /\ UNCHANGED <<signals, poisoned, lockW, lockR, sghost>>
    /\ StoreFrame

StoreDetachNext ==
    \E t \in Threads :
        \/ BeginDetachCall(t) \/ BeginHandleCall(t)
        \/ StoreWriteLock(t) \/ StoreReadLock(t)
        \/ Lookup(t) \/ RemoveKey(t) \/ ClearAll(t) \/ Has(t)
        \/ SigWrite(t) \/ SigBump(t) \/ SigPush(t)
        \/ StoreReturn(t)

(***************************************************************************)
(* EventRouter (event_router.rs).  A handler is its phase tag and what its *)
(* closure does with the context and returns:                              *)
(*   handled  returns Handled                                              *)
(*   prevent  ctx.prevent_default(), returns Handled                       *)
(*   stop     ctx.stop_propagation(), returns Ignored                      *)
(*   consume  returns Consumed                                             *)
(* The context carries, as history, the log of the closures invoked: the   *)
(* component, the index of the handler in its Vec, and the phase.          *)
(***************************************************************************)
EventPhase == {"Capture", "Target", "Bubble"}

Behaviours == {"handled", "prevent", "stop", "consume"}

\* The ComponentId values register hands out: a root, a child, a grandchild
ComponentIds == {1, 2, 3}

\* EventRouter::new
RouterInit ==
    /\ hierarchy = {}
    /\ handlers = [c \in ComponentIds |-> <<>>]
    /\ next_id = 1
    /\ routed = <<>>

RouterFrame == UNCHANGED <<diffVars, sigVars, derVars, storeVars, focusVars, appVars, layVars, canvasVars, rendVars, orderVars>>

\* EventRoutingContext::new
ContextNew == [phase |-> "Capture", stopped |-> FALSE, prevented |-> FALSE, log |-> <<>>]

\* The closure of handler h runs: its effect on the context
Invoke(h, ctx) ==
    [ctx EXCEPT !.stopped = @ \/ h.does = "stop",
                !.prevented = @ \/ h.does = "prevent"]

\* The EventResult the closure of handler h returns
ResultOf(h) ==
    CASE h.does = "consume" -> "Consumed"
      [] h.does \in {"handled", "prevent"} -> "Handled"
      [] OTHER -> "Ignored"

Reverse(s) == [i \in 1..Len(s) |-> s[Len(s) + 1 - i]]

\* while let Some(&parent) = self.hierarchy.get(&current) { path.push(parent); ... }
RECURSIVE PathUp(_, _)
PathUp(node, path) ==
    IF \E e \in hierarchy : e[1] = node
    THEN LET parent == (CHOOSE e \in hierarchy : e[1] = node)[2]
         IN  PathUp(parent, Append(path, parent))
    ELSE path

\* let mut path = vec![target]; ...; path.reverse()
BuildPath(target) == Reverse(PathUp(target, <<target>>))

\* for handler in handlers { let result = handler.handle(event, &mut ctx);
\*     if result == EventResult::Consumed { ctx.stop_propagation(); break; } }
RECURSIVE RunHandlers(_, _, _)
RunHandlers(component, i, ctx) ==
    IF i > Len(handlers[component]) THEN ctx
    ELSE LET h == handlers[component][i] IN
         IF h.phase = ctx.phase
         THEN LET logged == [ctx EXCEPT !.log = Append(@, [component |-> component,
                                                             index |-> i,
                                                             phase |-> ctx.phase])]
                  after == Invoke(h, logged)
              IN  IF ResultOf(h) = "Consumed"
                  THEN [after EXCEPT !.stopped = TRUE]
                  ELSE RunHandlers(component, i + 1, after)
         ELSE RunHandlers(component, i + 1, ctx)

\* for &component in ... { if !ctx.should_continue() { break; } ... }
RECURSIVE WalkComponents(_, _, _)
WalkComponents(nodes, k, ctx) ==
    IF k > Len(nodes) \/ ctx.stopped THEN ctx
    ELSE WalkComponents(nodes, k + 1, RunHandlers(nodes[k], 1, ctx))

\* path.iter().rev().skip(1)
CaptureOrder(path) == Tail(Reverse(path))

\* path.iter().skip(1)
BubbleOrder(path) == Tail(path)

\* The closing match on the handlers' results instead of the flags
FinalResultOfHandlers(ctx) ==
    IF ctx.stopped THEN "Consumed"
    ELSE IF \E e \in 1..Len(ctx.log) :
                ResultOf(handlers[ctx.log[e].component][ctx.log[e].index]) = "Handled"
         THEN "Handled"
         ELSE "Ignored"

\* if ctx.stopped { Consumed } else if ctx.prevented { Handled } else { Ignored }
FinalResult(ctx) ==
    IF ctx.stopped THEN "Consumed"
    ELSE IF ctx.prevented THEN "Handled"
    ELSE "Ignored"

\* EventRouter::route
Route(target) ==
    LET path == BuildPath(target)
        c1 == WalkComponents(CaptureOrder(path), 1, [ContextNew EXCEPT !.phase = "Capture"])
        c2 == IF ~c1.stopped
              THEN RunHandlers(target, 1, [c1 EXCEPT !.phase = "Target"])
              ELSE c1
        c3 == IF ~c2.stopped
              THEN WalkComponents(BubbleOrder(path), 1, [c2 EXCEPT !.phase = "Bubble"])
              ELSE c2
    IN  [target |-> target, path |-> path, log |-> c3.log, stopped |-> c3.stopped,
         prevented |-> c3.prevented, result |-> FinalResult(c3)]

\* The handlers added so far, over all components
RECURSIVE HandlerCountUpTo(_)
HandlerCountUpTo(c) == IF c = 0 THEN 0 ELSE Len(handlers[c]) + HandlerCountUpTo(c - 1)

HandlerCount == HandlerCountUpTo(Cardinality(ComponentIds))

\* router.register(parent): the root first, then children of registered components
Register ==
    /\ next_id \in ComponentIds
    /\ \E parent \in 0..(next_id - 1) :
           /\ (parent = 0) = (next_id = 1)
           /\ hierarchy' = IF parent = 0 THEN hierarchy
                           ELSE hierarchy \cup {<<next_id, parent>>}
    /\ next_id' = next_id + 1
    /\ routed' = <<>>
    /\ UNCHANGED handlers
    /\ RouterFrame

\* router.add_handler(component, EventHandler::new(phase, closure))
AddHandler ==
    /\ \E c \in 1..(next_id - 1), p \in EventPhase, d \in Behaviours :
           /\ HandlerCount < MaxHandlers
           /\ handlers' = [handlers EXCEPT ![c] = Append(@, [phase |-> p, does |-> d])]
    /\ routed' = <<>>
    /\ UNCHANGED <<hierarchy, next_id>>
    /\ RouterFrame

\* router.route(&event, target)
RouteEvent ==
    /\ \E target \in 1..(next_id - 1) : routed' = <<Route(target)>>
    /\ UNCHANGED <<hierarchy, handlers, next_id>>
    /\ RouterFrame

\* router.unregister(component)
Unregister ==
    /\ \E c \in 1..(next_id - 1) :
           /\ hierarchy' = {e \in hierarchy : e[1] # c}
           /\ handlers' = [handlers EXCEPT ![c] = <<>>]
    /\ routed' = <<>>
    /\ UNCHANGED next_id
    /\ RouterFrame

RouterNext == Register \/ AddHandler \/ RouteEvent \/ Unregister

\* The ComponentId values a caller passes as parent: any usize, among them the
\* id register is about to hand out and ids it has not handed out yet
ParentArgs == ComponentIds

\* router.register(parent) with any Option<ComponentId>; 0 stands for None
RegisterAny ==
    /\ next_id \in ComponentIds
    /\ \E parent \in {0} \cup ParentArgs :
           hierarchy' = IF parent = 0 THEN hierarchy
                        ELSE {e \in hierarchy : e[1] # next_id} \cup {<<next_id, parent>>}
    /\ next_id' = next_id + 1
    /\ routed' = <<>>
    /\ UNCHANGED handlers
    /\ RouterFrame

\* The while loop of route from `node` comes back to a component it has pushed
\* already, and so has no last iteration
RECURSIVE PathLoops(_, _)
PathLoops(node, pushed) ==
    IF \E e \in hierarchy : e[1] = node
    THEN LET parent == (CHOOSE e \in hierarchy : e[1] = node)[2]
         IN  parent \in pushed \/ PathLoops(parent, pushed \cup {parent})
    ELSE FALSE

\* A route call that does not return
NeverReturns(target) ==
    [target |-> target, path |-> <<>>, log |-> <<>>, stopped |-> FALSE,
     prevented |-> FALSE, result |-> "never"]

\* router.route(&event, target) on a hierarchy of any shape
RouteAny ==
    /\ \E target \in 1..(next_id - 1) :
           routed' = IF PathLoops(target, {target}) THEN <<NeverReturns(target)>>
                     ELSE <<Route(target)>>
    /\ UNCHANGED <<hierarchy, handlers, next_id>>
    /\ RouterFrame

RouterAnyNext == RegisterAny \/ RouteAny \/ Unregister

(***************************************************************************)
(* FocusManager (focus.rs).                                                *)
(***************************************************************************)
\* Option<ComponentId>::None
NoFocus == 0

\* FocusManager::new
FocusInit ==
    /\ components = <<>>
    /\ current = NoFocus
    /\ focus_next_id = 1
    /\ fghost = [op |-> "new", ret |-> FALSE, was |-> NoFocus, from |-> NoFocus, n |-> 0]

FocusFrame == UNCHANGED <<diffVars, sigVars, derVars, storeVars, routerVars, appVars, layVars, canvasVars, rendVars, orderVars>>

\* A retain that keeps every entry
RetainAll(comps, id) == comps

\* self.components.retain(|c| c.id != id)
RetainNot(comps, id) == SelectSeq(comps, LAMBDA c : c.id # id)

\* self.components.sort_by_key(|c| c.order) (stable) of a sorted Vec with one
\* entry pushed at its end: the entry moves before the entries of greater order
SortPushed(comps, e) ==
    SelectSeq(comps, LAMBDA c : c.order <= e.order) \o <<e>>
        \o SelectSeq(comps, LAMBDA c : c.order > e.order)

\* A position that is never found
PositionNone(comps, id) == 0

\* self.components.iter().position(|c| c.id == id), from 1; 0 for None
Position(comps, id) ==
    IF \E i \in 1..Len(comps) : comps[i].id = id
    THEN CHOOSE i \in 1..Len(comps) :
             comps[i].id = id /\ \A j \in 1..(i - 1) : comps[j].id # id
    ELSE 0

\* The loop of focus_next: for offset in 0..len { idx = (start_idx + offset) % len .. }
\* with start_idx counted from 0; the new current, or `cur` when nothing is focusable
RECURSIVE SearchForward(_, _, _, _)
SearchForward(comps, cur, start_idx, offset) ==
    IF offset >= Len(comps) THEN [current |-> cur, ret |-> FALSE]
    ELSE LET idx == (start_idx + offset) % Len(comps) IN
         IF comps[idx + 1].focusable
         THEN [current |-> comps[idx + 1].id, ret |-> TRUE]
         ELSE SearchForward(comps, cur, start_idx, offset + 1)

\* A focus_next that starts its search at the current entry
FocusNextFromCurrent(comps, cur) ==
    IF Len(comps) = 0 THEN [current |-> cur, ret |-> FALSE]
    ELSE LET current_idx == IF cur # NoFocus THEN Position(comps, cur) ELSE 0
             start_idx == IF current_idx # 0 THEN current_idx - 1 ELSE 0
         IN  SearchForward(comps, cur, start_idx, 0)

\* FocusManager::focus_next
FocusNextOf(comps, cur) ==
    IF Len(comps) = 0 THEN [current |-> cur, ret |-> FALSE]
    ELSE LET current_idx == IF cur # NoFocus THEN Position(comps, cur) ELSE 0
             start_idx == IF current_idx # 0 THEN (current_idx - 1) + 1 ELSE 0
         IN  SearchForward(comps, cur, start_idx, 0)

\* The loop of focus_prev: idx = if start_idx >= offset { start_idx - offset }
\* else { len - (offset - start_idx) }
RECURSIVE SearchBackward(_, _, _, _)
SearchBackward(comps, cur, start_idx, offset) ==
    IF offset >= Len(comps) THEN [current |-> cur, ret |-> FALSE]
    ELSE LET idx == IF start_idx >= offset THEN start_idx - offset
                    ELSE Len(comps) - (offset - start_idx) IN
         IF comps[idx + 1].focusable
         THEN [current |-> comps[idx + 1].id, ret |-> TRUE]
         ELSE SearchBackward(comps, cur, start_idx, offset + 1)

\* FocusManager::focus_prev
FocusPrevOf(comps, cur) ==
    IF Len(comps) = 0 THEN [current |-> cur, ret |-> FALSE]
    ELSE LET current_idx == IF cur # NoFocus THEN Position(comps, cur) ELSE 0
             start_idx == IF current_idx # 0
                          THEN (IF current_idx - 1 = 0 THEN Len(comps) - 1
                                ELSE (current_idx - 1) - 1)
                          ELSE Len(comps) - 1
         IN  SearchBackward(comps, cur, start_idx, 0)

\* The history of a call other than focus_next: it ends the run of focus_next calls
Called(op, ret) == [op |-> op, ret |-> ret, was |-> current, from |-> NoFocus, n |-> 0]

\* self.components.iter().filter(|c| c.focusable).count()
FocusableCount == Len(SelectSeq(components, LAMBDA c : c.focusable))

\* FocusManager::new_id
FocusNewId ==
    /\ focus_next_id <= MaxFocusIds
    /\ focus_next_id' = focus_next_id + 1
    /\ fghost' = Called("new_id", TRUE)
    /\ UNCHANGED <<components, current>>
    /\ FocusFrame

\* FocusManager::register(id, order, focusable), with an id new_id has returned
FocusRegister ==
    /\ \E id \in 1..(focus_next_id - 1), order \in 0..MaxOrder, focusable \in BOOLEAN :
           /\ components' = SortPushed(RetainNot(components, id),
                                       [id |-> id, order |-> order, focusable |-> focusable])
           /\ current' = IF current = NoFocus /\ focusable THEN id ELSE current
    /\ fghost' = Called("register", TRUE)
    /\ UNCHANGED focus_next_id
    /\ FocusFrame

\* An unregister that moves the focus on with focus_next before it removes the entry
UnregisterToSuccessor(comps, cur, id) ==
    [components |-> RetainNot(comps, id),
     current |-> IF cur = id
                 THEN (IF FocusNextOf(comps, cur).current # id
                       THEN FocusNextOf(comps, cur).current ELSE NoFocus)
                 ELSE cur]

\* FocusManager::unregister(id): the components and the current focus after it
UnregisterOf(comps, cur, id) ==
    LET kept == RetainNot(comps, id) IN
    [components |-> kept,
     current |-> IF cur = id
                 THEN (IF Len(kept) # 0 THEN FocusNextOf(kept, NoFocus).current
                       ELSE NoFocus)
                 ELSE cur]

\* FocusManager::unregister(id)
FocusUnregister ==
    /\ \E id \in 1..(focus_next_id - 1) :
           /\ components' = UnregisterOf(components, current, id).components
           /\ current' = UnregisterOf(components, current, id).current
    /\ fghost' = Called("unregister", TRUE)
    /\ UNCHANGED focus_next_id
    /\ FocusFrame

\* FocusManager::focus(id)
Focus ==
    /\ \E id \in 1..(focus_next_id - 1) :
           LET ok == \E i \in 1..Len(components) :
                         /\ components[i].id = id
                         /\ \A j \in 1..(i - 1) : components[j].id # id
                         /\ components[i].focusable
           IN  /\ current' = IF ok THEN id ELSE current
               /\ fghost' = Called("focus", ok)
    /\ UNCHANGED <<components, focus_next_id>>
    /\ FocusFrame

\* FocusManager::focus_next; a run of calls ends when it is as long as the
\* number of focusable entries
FocusNext ==
    /\ current' = FocusNextOf(components, current).current
    /\ fghost' = [op |-> "focus_next", ret |-> FocusNextOf(components, current).ret,
                  was |-> current,
                  from |-> IF fghost.n = 0 \/ fghost.n >= FocusableCount
                           THEN current ELSE fghost.from,
                  n |-> IF fghost.n = 0 \/ fghost.n >= FocusableCount
                        THEN 1 ELSE fghost.n + 1]
    /\ UNCHANGED <<components, focus_next_id>>
    /\ FocusFrame

\* FocusManager::focus_prev
FocusPrev ==
    /\ current' = FocusPrevOf(components, current).current
    /\ fghost' = Called("focus_prev", FocusPrevOf(components, current).ret)
    /\ UNCHANGED <<components, focus_next_id>>
    /\ FocusFrame

\* FocusManager::clear
FocusClear ==
    /\ current' = NoFocus
    /\ fghost' = Called("clear", TRUE)
    /\ UNCHANGED <<components, focus_next_id>>
    /\ FocusFrame

\* FocusManager::clear_all
FocusClearAll ==
    /\ components' = <<>>
    /\ current' = NoFocus
    /\ fghost' = Called("clear_all", TRUE)
    /\ UNCHANGED focus_next_id
    /\ FocusFrame

FocusManagerNext ==
    \/ FocusNewId \/ FocusRegister \/ FocusUnregister \/ Focus
    \/ FocusNext \/ FocusPrev \/ FocusClear \/ FocusClearAll

(***************************************************************************)
(* App::run (app/mod.rs) with Renderer::render (render/renderer.rs), over  *)
(* a Backend whose every fallible call returns Ok or Err.  run is a        *)
(* program of steps; `?` on an Err leaves run with that Err, and leaving   *)
(* run, with Ok or Err, drops the App, whose Drop calls cleanup and        *)
(* discards its result.  The App has a root component.                     *)
(***************************************************************************)
\* Style::default()
DefaultStyle == [fg |-> NoColor, bg |-> NoColor, mods |-> 0]

\* A terminal no cell of which has been written
NoScreen == [p \in {} |-> DefaultCell]

(***************************************************************************)
(* Renderer (render/renderer.rs) over a Backend whose terminal keeps, for  *)
(* every position, the character and style last written there.  A write    *)
(* is a sequence of codes: the SGR reset, a foreground, a background, the  *)
(* modifiers, or a character, which goes to the cursor in the style of the *)
(* pen and moves the cursor one cell to the right.                         *)
(***************************************************************************)
\* cell.style
StyleOf(cell) == [fg |-> cell.fg, bg |-> cell.bg, mods |-> cell.mods]

\* One code of an output: its kind and its argument
Code(kind, v) == [code |-> kind, v |-> v]

\* write_reset_codes: "\x1b[0m"
WriteResetCodes == <<Code("reset", <<>>)>>

\* write_style_codes: the reset, then the colours that are present and the
\* modifiers that are set
WriteStyleCodes(style) ==
    <<Code("reset", <<>>)>>
    \o (IF style.fg # NoColor THEN <<Code("fg", style.fg)>> ELSE <<>>)
    \o (IF style.bg # NoColor THEN <<Code("bg", style.bg)>> ELSE <<>>)
    \o (IF style.mods # 0 THEN <<Code("mods", <<style.mods>>)>> ELSE <<>>)

\* The loop over x of render_region for row y, from column x up to `end`;
\* current_style is an Option: <<>> or <<style>>
RECURSIVE LineOutput(_, _, _, _, _, _)
LineOutput(buf, y, x, end, current_style, output) ==
    IF x >= end
    THEN IF current_style # <<>> THEN output \o WriteResetCodes ELSE output
    ELSE LET got == BufferGet(buf, x, y) IN
         IF got = <<>> THEN LineOutput(buf, y, x + 1, end, current_style, output)
         ELSE LET cell == got[1]
                  styled == IF current_style # <<StyleOf(cell)>>
                            THEN output \o WriteStyleCodes(StyleOf(cell))
                            ELSE output
              IN  LineOutput(buf, y, x + 1, end, <<StyleOf(cell)>>,
                             Append(styled, Code("ch", <<cell.ch>>)))

\* A call on the Backend
BackendCall(op, x, y, content) == [op |-> op, x |-> x, y |-> y, content |-> content]

\* Renderer::render_region: for each row of the region inside the buffer,
\* cursor_goto(rect.x, y) and one write of the row's output
RenderRegionCalls(buf, rect) ==
    LET rows == Max(Min(rect.y + rect.height, buf.height) - rect.y, 0) IN
    [i \in 1..(2 * rows) |->
        LET y == rect.y + ((i - 1) \div 2) IN
        IF i % 2 = 1 THEN BackendCall("cursor_goto", rect.x, y, <<>>)
        ELSE BackendCall("write", 0, 0,
                         LineOutput(buf, y, rect.x, Min(rect.x + rect.width, buf.width),
                                    <<>>, <<>>))]

\* for region in dirty_regions { self.render_region(backend, buffer, &region)?; }
RECURSIVE RegionsCalls(_, _)
RegionsCalls(buf, regions) ==
    IF regions = <<>> THEN <<>>
    ELSE RenderRegionCalls(buf, Head(regions)) \o RegionsCalls(buf, Tail(regions))

\* A render that diffs whenever a previous buffer is supplied
DirtyRegionsDiffFirst(first, prev, buf) ==
    IF prev = <<>>
    THEN <<Rect(0, 0, buf.width, buf.height)>>
    ELSE ComputeDiff(prev[1], buf)

\* The dirty regions of Renderer::render; prev is an Option, <<>> or <<buffer>>
DirtyRegionsOf(first, prev, buf) ==
    IF first \/ prev = <<>>
    THEN <<Rect(0, 0, buf.width, buf.height)>>
    ELSE ComputeDiff(prev[1], buf)

\* The backend calls of a render that meets no Err: none when there is no
\* dirty region, else those of the regions and one flush
RenderCalls(first, prev, buf) ==
    LET dirty_regions == DirtyRegionsOf(first, prev, buf) IN
    IF dirty_regions = <<>> THEN <<>>
    ELSE RegionsCalls(buf, dirty_regions) \o <<BackendCall("flush", 0, 0, <<>>)>>

\* The terminal after the codes of a write from the k-th on
RECURSIVE Typed(_, _, _)
Typed(t, content, k) ==
    IF k > Len(content) THEN t
    ELSE LET c == content[k] IN
         CASE c.code = "reset" -> Typed([t EXCEPT !.pen = DefaultStyle], content, k + 1)
           [] c.code = "fg" -> Typed([t EXCEPT !.pen.fg = c.v], content, k + 1)
           [] c.code = "bg" -> Typed([t EXCEPT !.pen.bg = c.v], content, k + 1)
           [] c.code = "mods" -> Typed([t EXCEPT !.pen.mods = c.v[1]], content, k + 1)
           [] OTHER ->
                Typed([t EXCEPT
                          !.screen = [p \in DOMAIN t.screen \cup {t.cursor} |->
                                         IF p = t.cursor
                                         THEN CellWithStyle(c.v[1], t.pen.fg, t.pen.bg, t.pen.mods)
                                         ELSE t.screen[p]],
                          !.cursor = <<t.cursor[1] + 1, t.cursor[2]>>],
                      content, k + 1)

\* The terminal after the backend calls from the k-th on
RECURSIVE Carried(_, _, _)
Carried(t, calls, k) ==
    IF k > Len(calls) THEN t
    ELSE LET c == calls[k] IN
         CASE c.op = "cursor_goto" -> Carried([t EXCEPT !.cursor = <<c.x, c.y>>], calls, k + 1)
           [] c.op = "write" -> Carried(Typed(t, c.content, 1), calls, k + 1)
           [] OTHER -> Carried(t, calls, k + 1)

\* The sizes backend.size() reports
AppSizes == {<<1, 1>>, <<2, 1>>}

\* Buffer::new(80, 24) in App::new, scaled to the sizes of the model
InitialSize == <<2, 1>>

\* What the root's view tree paints at (0, 0) in a frame
Pictures == {DefaultCell, CellNew(65)}

\* The events backend.read_event delivers: the keys 'q', Control-C, Tab,
\* Shift-Tab and another key
AppEvents == {"q", "ctrl_c", "tab", "shift_tab", "other"}

\* Color::CYAN
CYAN == <<0, 255, 255>>

\* "rsdrav v0.1.0 - Press 'q' to quit", the message of render_test_frame
TestMessage ==
    <<114, 115, 100, 114, 97, 118, 32, 118, 48, 46, 49, 46, 48, 32, 45, 32,
      80, 114, 101, 115, 115, 32, 39, 113, 39, 32, 116, 111, 32, 113, 117, 105, 116>>

\* a.saturating_sub(b)
SaturatingSub(a, b) == IF a >= b THEN a - b ELSE 0

\* The writes of render_test_frame into a w x h buffer, in the order made:
\* the borders, the corners, the message; each is <<x, y, cell>>
TestWrites(w, h) ==
    [i \in 1..w |-> <<i - 1, 0, CellNew(9472)>>]
    \o [i \in 1..w |-> <<i - 1, SaturatingSub(h, 1), CellNew(9472)>>]
    \o [i \in 1..(2 * h) |->
           IF i % 2 = 1 THEN <<0, (i - 1) \div 2, CellNew(9474)>>
           ELSE <<SaturatingSub(w, 1), (i - 1) \div 2, CellNew(9474)>>]
    \o << <<0, 0, CellNew(9484)>>,
          <<SaturatingSub(w, 1), 0, CellNew(9488)>>,
          <<0, SaturatingSub(h, 1), CellNew(9492)>>,
          <<SaturatingSub(w, 1), SaturatingSub(h, 1), CellNew(9496)>> >>
    \o [i \in 1..Len(TestMessage) |->
           <<SaturatingSub(w \div 2, Len(TestMessage) \div 2) + (i - 1), h \div 2,
             CellWithStyle(TestMessage[i], CYAN, NoColor, 0)>>]

\* The buffer after the writes ws, each a Buffer::set: a cell holds the last
\* write made at its position, and a write outside the buffer is ignored
SetAll(buf, ws) ==
    [buf EXCEPT !.cells =
        [k \in 1..Len(buf.cells) |->
            LET hits == {i \in 1..Len(ws) :
                            /\ ws[i][1] < buf.width /\ ws[i][2] < buf.height
                            /\ BufferIndex(buf, ws[i][1], ws[i][2]) = k}
            IN  IF hits = {} THEN buf.cells[k]
                ELSE ws[CHOOSE i \in hits : \A j \in hits : j <= i][3]]]

\* The results of the root's handle_event that end App::handle_event
RootTookConsumed == {"Consumed"}

RootTook == {"Consumed", "Handled"}

\* run with the buffer swap ahead of the render of the frame
RunProgramSwapFirst ==
    <<"enter_raw_mode", "enter_alt_screen", "cursor_hide", "clear", "mount",
      "while", "size", "read_event", "handle_event",
      "swap", "render_root", "dirty_regions", "render_region", "flush", "sleep",
      "unmount", "cursor_show", "leave_alt_screen", "leave_raw_mode", "return">>

\* The steps of App::run, render_component_frame and Renderer::render inlined
RunProgram ==
    <<"enter_raw_mode", "enter_alt_screen", "cursor_hide", "clear", "mount",
      "while", "size", "read_event", "handle_event",
      "render_root", "dirty_regions", "render_region", "flush", "swap", "sleep",
      "unmount", "cursor_show", "leave_alt_screen", "leave_raw_mode", "return">>

\* App::cleanup, as Drop calls it
CleanupProgram == <<"cursor_show", "leave_alt_screen", "leave_raw_mode">>

\* The index of a step of run
StepAt(l) == CHOOSE i \in 1..Len(RunProgram) : RunProgram[i] = l

\* App::new and App::root
AppInit ==
    /\ root = FALSE
    /\ app_pc = [mode |-> "run", at |-> 1]
    /\ term = [raw |-> FALSE, alt |-> FALSE, cursor_hidden |-> FALSE,
               screen |-> NoScreen, pen |-> DefaultStyle, cursor |-> <<0, 0>>]
    /\ should_quit = FALSE
    /\ first_render = TRUE
    /\ buffer = BufferNew(InitialSize[1], InitialSize[2])
    /\ prev_buffer = BufferNew(InitialSize[1], InitialSize[2])
    /\ app_locals = [event |-> <<>>, root_result |-> "", dirty_regions |-> <<>>, ret |-> ""]
    /\ ahist = [frame |-> <<>>, frames |-> 0, mounts |-> 0, unmounts |-> 0,
                asked |-> {}, entered |-> FALSE, polled |-> FALSE, late |-> FALSE,
                changed |-> FALSE]

\* run owns the App: the root is the one given before run
AppFrame == UNCHANGED <<diffVars, sigVars, derVars, storeVars, routerVars, root, layVars, canvasVars, rendVars, orderVars>>

\* run has not begun: the App is still being built
Building == app_pc = [mode |-> "run", at |-> 1]

\* App::root(component), before run
Root ==
    /\ Building
    /\ ~root
    /\ root' = TRUE
    /\ UNCHANGED <<app_pc, term, should_quit, first_render, buffer, prev_buffer,
                   app_locals, ahist, focusVars>>
    /\ UNCHANGED <<diffVars, sigVars, derVars, storeVars, routerVars, layVars, canvasVars,
                   rendVars, orderVars>>

\* let id = app.focus_mut().new_id(); app.focus_mut().register(id, 0, focusable),
\* before run
AppFocusRegister ==
    /\ Building
    /\ Len(components) < MaxAppFocus
    /\ \E focusable \in BOOLEAN :
           LET id == focus_next_id IN
           /\ focus_next_id' = focus_next_id + 1
           /\ components' = SortPushed(RetainNot(components, id),
                                       [id |-> id, order |-> 0, focusable |-> focusable])
           /\ current' = IF current = NoFocus /\ focusable THEN id ELSE current
    /\ UNCHANGED <<app_pc, term, should_quit, first_render, buffer, prev_buffer,
                   app_locals, ahist, fghost>>
    /\ AppFrame

\* run is at step l
AppAt(l) == app_pc.mode = "run" /\ RunProgram[app_pc.at] = l

\* Drop's cleanup is at step l
DropAt(l) == app_pc.mode = "drop" /\ CleanupProgram[app_pc.at] = l

\* The next step of run
Proceed == [app_pc EXCEPT !.at = @ + 1]

\* `?` on an Err: run returns the Err and the App is dropped
Fail == [mode |-> "drop", at |-> 1]

\* The step is added to the history of the frame
Logged(l) == [ahist EXCEPT !.frame = Append(@, l),
                           !.late = @ \/ (ahist.unmounts > 0)]

\* The terminal after the backend has carried out the call l
TermAfter(l) ==
    CASE l = "enter_raw_mode" -> [term EXCEPT !.raw = TRUE]
      [] l = "enter_alt_screen" -> [term EXCEPT !.alt = TRUE]
      [] l = "cursor_hide" -> [term EXCEPT !.cursor_hidden = TRUE]
      [] l = "cursor_show" -> [term EXCEPT !.cursor_hidden = FALSE]
      [] l = "leave_alt_screen" -> [term EXCEPT !.alt = FALSE]
      [] l = "leave_raw_mode" -> [term EXCEPT !.raw = FALSE]
      [] l = "clear" -> [term EXCEPT !.screen = NoScreen]
      [] OTHER -> term

\* self.backend.enter_raw_mode()?; enter_alt_screen()?; cursor_hide()?; clear()?
Setup ==
    /\ \E l \in {"enter_raw_mode", "enter_alt_screen", "cursor_hide", "clear"} :
           /\ AppAt(l)
           /\ \E ok \in BOOLEAN :
                  /\ term' = IF ok THEN TermAfter(l) ELSE term
                  /\ app_pc' = IF ok THEN Proceed ELSE Fail
                  /\ app_locals' = IF ok THEN app_locals ELSE [app_locals EXCEPT !.ret = "Err"]
                  /\ ahist' = IF ok /\ l \in {"enter_raw_mode", "enter_alt_screen"}
                              THEN [ahist EXCEPT !.asked = {}, !.entered = TRUE]
                              ELSE ahist
    /\ UNCHANGED <<should_quit, first_render, buffer, prev_buffer, focusVars>>
    /\ AppFrame

\* if let Some(ref mut root) = self.root { root.mount(&mut mount_ctx) }
Mount ==
    /\ AppAt("mount")
    /\ app_pc' = Proceed
    /\ ahist' = IF root THEN [ahist EXCEPT !.mounts = @ + 1] ELSE ahist
    /\ UNCHANGED <<term, should_quit, first_render, buffer, prev_buffer, app_locals, focusVars>>
    /\ AppFrame

\* while !self.should_quit: a frame begins, or the loop is left
While ==
    /\ AppAt("while")
    /\ IF should_quit
       THEN app_pc' = [app_pc EXCEPT !.at = StepAt("unmount")] /\ UNCHANGED ahist
       ELSE /\ ahist.frames < MaxFrames
            /\ app_pc' = Proceed
            /\ ahist' = [ahist EXCEPT !.frame = <<>>, !.frames = @ + 1, !.polled = FALSE,
                                      !.changed = FALSE]
    /\ UNCHANGED <<term, should_quit, first_render, buffer, prev_buffer, app_locals, focusVars>>
    /\ AppFrame

\* let (w, h) = self.backend.size()?; the buffers are resized when it differs
Size ==
    /\ AppAt("size")
    /\ \/ /\ app_pc' = Fail
          /\ app_locals' = [app_locals EXCEPT !.ret = "Err"]
          /\ UNCHANGED <<buffer, prev_buffer>>
       \/ \E s \in AppSizes :
              /\ app_pc' = Proceed
              /\ IF buffer.width # s[1] \/ buffer.height # s[2]
                 THEN buffer' = BufferNew(s[1], s[2]) /\ prev_buffer' = BufferNew(s[1], s[2])
                 ELSE UNCHANGED <<buffer, prev_buffer>>
              /\ UNCHANGED app_locals
    /\ UNCHANGED <<term, should_quit, first_render, ahist, focusVars>>
    /\ AppFrame

\* self.backend.read_event(tick_rate)?: Err, Ok(None) or Ok(Some(event))
ReadEvent ==
    /\ AppAt("read_event")
    /\ \/ /\ app_pc' = Fail
          /\ app_locals' = [app_locals EXCEPT !.ret = "Err"]
          /\ UNCHANGED ahist
       \/ /\ app_pc' = [app_pc EXCEPT !.at = StepAt("handle_event") + 1]
          /\ app_locals' = [app_locals EXCEPT !.event = <<>>]
          /\ UNCHANGED ahist
       \/ \E e \in AppEvents :
              /\ app_pc' = Proceed
              /\ app_locals' = [app_locals EXCEPT !.event = <<e>>]
              /\ ahist' = [ahist EXCEPT !.polled = TRUE]
    /\ UNCHANGED <<term, should_quit, first_render, buffer, prev_buffer, focusVars>>
    /\ AppFrame

\* self.handle_event(event)?: the root, when there is one, is offered the
\* event, and its handler may mutate a signal; unless the root took the event,
\* Tab and Shift-Tab move the focus and 'q' and Control-C set should_quit
HandleEvent ==
    /\ AppAt("handle_event")
    /\ app_pc' = Proceed
    /\ \E result \in (IF root THEN {"Consumed", "Handled", "Ignored"} ELSE {"none"}),
          mutates \in (IF root THEN BOOLEAN ELSE {FALSE}) :
           LET e == app_locals.event[1]
               taken == result \in RootTook
           IN
           /\ app_locals' = [app_locals EXCEPT !.root_result = result]
           /\ ahist' = [Logged("handle_event") EXCEPT !.changed = @ \/ mutates]
           /\ current' = CASE taken -> current
                           [] e = "tab" -> FocusNextOf(components, current).current
                           [] e = "shift_tab" -> FocusPrevOf(components, current).current
                           [] OTHER -> current
           /\ should_quit' = IF ~taken /\ e \in {"q", "ctrl_c"} THEN TRUE ELSE should_quit
    /\ UNCHANGED <<term, first_render, buffer, prev_buffer,
                   components, focus_next_id, fghost>>
    /\ AppFrame

\* render_component_frame: self.buffer.clear(); root.render(..); view_tree.render(..),
\* or render_test_frame when there is no root
RenderRoot ==
    /\ AppAt("render_root")
    /\ app_pc' = Proceed
    /\ IF root
       THEN \E cell \in Pictures :
                buffer' = BufferSet(BufferNew(buffer.width, buffer.height), 0, 0, cell)
       ELSE buffer' = SetAll(BufferNew(buffer.width, buffer.height),
                             TestWrites(buffer.width, buffer.height))
    /\ ahist' = Logged("render")
    /\ UNCHANGED <<term, should_quit, first_render, prev_buffer, app_locals, focusVars>>
    /\ AppFrame

\* Renderer::render: the dirty regions, the full screen on the first render and
\* compute_diff(prev_buffer, buffer) afterwards; none ends the render
DirtyRegions ==
    /\ AppAt("dirty_regions")
    /\ LET regions == IF first_render
                      THEN <<Rect(0, 0, buffer.width, buffer.height)>>
                      ELSE ComputeDiff(prev_buffer, buffer)
       IN  /\ app_locals' = [app_locals EXCEPT !.dirty_regions = regions]
           /\ app_pc' = IF regions = <<>>
                        THEN [app_pc EXCEPT !.at = StepAt("flush") + 1]
                        ELSE Proceed
    /\ ahist' = Logged(IF first_render THEN "full_screen" ELSE "diff")
    /\ first_render' = FALSE
    /\ UNCHANGED <<term, should_quit, buffer, prev_buffer, focusVars>>
    /\ AppFrame

\* for region in dirty_regions { self.render_region(backend, buffer, &region)?; }
\* The backend carries out every call, or all before the one that returns Err
RenderRegion ==
    /\ AppAt("render_region")
    /\ \E calls \in {RegionsCalls(buffer, app_locals.dirty_regions)} :
           \/ /\ term' = Carried(term, calls, 1)
              /\ app_pc' = Proceed
              /\ UNCHANGED app_locals
           \/ \E made \in 0..(Len(calls) - 1) :
                  /\ term' = Carried(term, SubSeq(calls, 1, made), 1)
                  /\ app_pc' = Fail
                  /\ app_locals' = [app_locals EXCEPT !.ret = "Err"]
    /\ ahist' = Logged("write")
    /\ UNCHANGED <<should_quit, first_render, buffer, prev_buffer, focusVars>>
    /\ AppFrame

\* backend.flush()?
Flush ==
    /\ AppAt("flush")
    /\ \E ok \in BOOLEAN :
           /\ app_pc' = IF ok THEN Proceed ELSE Fail
           /\ app_locals' = IF ok THEN app_locals ELSE [app_locals EXCEPT !.ret = "Err"]
    /\ ahist' = Logged("flush")
    /\ UNCHANGED <<term, should_quit, first_render, buffer, prev_buffer, focusVars>>
    /\ AppFrame

\* std::mem::swap(&mut self.buffer, &mut self.prev_buffer)
Swap ==
    /\ AppAt("swap")
    /\ app_pc' = Proceed
    /\ buffer' = prev_buffer
    /\ prev_buffer' = buffer
    /\ ahist' = Logged("swap")
    /\ UNCHANGED <<term, should_quit, first_render, app_locals, focusVars>>
    /\ AppFrame

\* std::thread::sleep(tick_rate - elapsed), and back to the loop test
Sleep ==
    /\ AppAt("sleep")
    /\ app_pc' = [app_pc EXCEPT !.at = StepAt("while")]
    /\ UNCHANGED <<term, should_quit, first_render, buffer, prev_buffer, app_locals,
                   ahist, focusVars>>
    /\ AppFrame

\* if let Some(ref mut root) = self.root { root.unmount(&mut mount_ctx) }
Unmount ==
    /\ AppAt("unmount")
    /\ app_pc' = Proceed
    /\ ahist' = IF root THEN [ahist EXCEPT !.unmounts = @ + 1] ELSE ahist
    /\ UNCHANGED <<term, should_quit, first_render, buffer, prev_buffer, app_locals, focusVars>>
    /\ AppFrame

\* self.cleanup()? in run: cursor_show()?; leave_alt_screen()?; leave_raw_mode()?
Cleanup ==
    /\ \E l \in {"cursor_show", "leave_alt_screen", "leave_raw_mode"} :
           /\ AppAt(l)
           /\ \E ok \in BOOLEAN :
                  /\ term' = IF ok THEN TermAfter(l) ELSE term
                  /\ app_pc' = IF ok THEN Proceed ELSE Fail
                  /\ app_locals' = IF ok THEN app_locals ELSE [app_locals EXCEPT !.ret = "Err"]
           /\ ahist' = [ahist EXCEPT !.asked = @ \cup {l}]
    /\ UNCHANGED <<should_quit, first_render, buffer, prev_buffer, focusVars>>
    /\ AppFrame

\* Ok(()): run returns and the App is dropped
ReturnOk ==
    /\ AppAt("return")
    /\ app_pc' = [mode |-> "drop", at |-> 1]
    /\ app_locals' = [app_locals EXCEPT !.ret = "Ok"]
    /\ UNCHANGED <<term, should_quit, first_render, buffer, prev_buffer, ahist, focusVars>>
    /\ AppFrame

\* Drop for App: let _ = self.cleanup(); the first Err ends cleanup
DropCleanup ==
    /\ \E l \in {"cursor_show", "leave_alt_screen", "leave_raw_mode"} :
           /\ DropAt(l)
           /\ \E ok \in BOOLEAN :
                  /\ term' = IF ok THEN TermAfter(l) ELSE term
                  /\ app_pc' = IF ok /\ app_pc.at < Len(CleanupProgram)
                               THEN Proceed
                               ELSE [mode |-> "done", at |-> 1]
           /\ ahist' = [ahist EXCEPT !.asked = @ \cup {l}]
    /\ UNCHANGED <<should_quit, first_render, buffer, prev_buffer, app_locals, focusVars>>
    /\ AppFrame

AppNext ==
    \/ Root \/ AppFocusRegister
    \/ Setup \/ Mount \/ While \/ Size \/ ReadEvent \/ HandleEvent
    \/ RenderRoot \/ DirtyRegions \/ RenderRegion \/ Flush \/ Swap \/ Sleep
    \/ Unmount \/ Cleanup \/ ReturnOk \/ DropCleanup

(***************************************************************************)
(* Rect (layout/mod.rs).  Coordinates are u16.  A `+` that overflows       *)
(* panics in a build with overflow checks (debug) and wraps in one without *)
(* (release); the saturating_* and min/max calls do neither.               *)
(***************************************************************************)
\* u16::MAX
U16Max == 65535

\* The u16 values the calls are made with
U16Samples == {0, 1, U16Max}

\* The rectangles the calls are made with
RectSamples ==
    {Rect(x, y, w, h) : x \in U16Samples, y \in U16Samples, w \in {1, U16Max}, h \in {1, U16Max}}
    \cup {Rect(0, 0, 0, 0)}

Builds == {"debug", "release"}

\* a + b on u16 without overflow checks
WrappingAdd(a, b) == (a + b) % (U16Max + 1)

\* a - b on u16 without overflow checks
WrappingSub(a, b) == (a - b) % (U16Max + 1)

\* a + b overflows u16
AddOverflows(a, b) == a + b > U16Max

\* a.saturating_add(b)
SaturatingAdd(a, b) == IF a + b > U16Max THEN U16Max ELSE a + b

\* a.saturating_mul(b)
SaturatingMul(a, b) == IF a * b > U16Max THEN U16Max ELSE a * b

\* A call that returned v, and a call that panicked
Returns(v) == [panic |-> FALSE, val |-> <<v>>]

Panics == [panic |-> TRUE, val |-> <<>>]

LayoutInit ==
    /\ lay_in = [op |-> "none"]
    /\ lay_out = Returns(0)

LayFrame == UNCHANGED <<diffVars, sigVars, derVars, storeVars, routerVars, focusVars, appVars, canvasVars, rendVars, orderVars>>

\* Rect::contains: x >= self.x && x < self.x + self.width && y >= self.y && y < self.y + self.height
RectContains(r, x, y, build) ==
    IF ~(x >= r.x) THEN Returns(FALSE)
    ELSE IF AddOverflows(r.x, r.width) /\ build = "debug" THEN Panics
    ELSE IF ~(x < WrappingAdd(r.x, r.width)) THEN Returns(FALSE)
    ELSE IF ~(y >= r.y) THEN Returns(FALSE)
    ELSE IF AddOverflows(r.y, r.height) /\ build = "debug" THEN Panics
    ELSE Returns(y < WrappingAdd(r.y, r.height))

\* Rect::inner
RectInner(r, margin) ==
    LET m2 == SaturatingMul(margin, 2) IN
    Returns(Rect(SaturatingAdd(r.x, margin), SaturatingAdd(r.y, margin),
                 SaturatingSub(r.width, m2), SaturatingSub(r.height, m2)))

\* Rect::split_h
RectSplitH(r, at) ==
    Returns(<<Rect(r.x, r.y, Min(at, r.width), r.height),
              Rect(SaturatingAdd(r.x, at), r.y, SaturatingSub(r.width, at), r.height)>>)

\* Rect::split_v
RectSplitV(r, at) ==
    Returns(<<Rect(r.x, r.y, r.width, Min(at, r.height)),
              Rect(r.x, SaturatingAdd(r.y, at), r.width, SaturatingSub(r.height, at))>>)

\* One of the four far-edge sums of intersect and union overflows
FarEdgeOverflows(r, o) ==
    \/ AddOverflows(r.x, r.width) \/ AddOverflows(o.x, o.width)
    \/ AddOverflows(r.y, r.height) \/ AddOverflows(o.y, o.height)

\* Rect::intersect: an Option, <<>> for None and <<rect>> for Some
RectIntersect(r, o, build) ==
    IF FarEdgeOverflows(r, o) /\ build = "debug" THEN Panics
    ELSE LET x1 == Max(r.x, o.x)
             y1 == Max(r.y, o.y)
             x2 == Min(WrappingAdd(r.x, r.width), WrappingAdd(o.x, o.width))
             y2 == Min(WrappingAdd(r.y, r.height), WrappingAdd(o.y, o.height))
         IN  IF x1 < x2 /\ y1 < y2
             THEN Returns(<<Rect(x1, y1, x2 - x1, y2 - y1)>>)
             ELSE Returns(<<>>)

\* Rect::union; x2 - x1 underflows only after a far edge has wrapped
RectUnion(r, o, build) ==
    IF FarEdgeOverflows(r, o) /\ build = "debug" THEN Panics
    ELSE LET x1 == Min(r.x, o.x)
             y1 == Min(r.y, o.y)
             x2 == Max(WrappingAdd(r.x, r.width), WrappingAdd(o.x, o.width))
             y2 == Max(WrappingAdd(r.y, r.height), WrappingAdd(o.y, o.height))
         IN  Returns(Rect(x1, y1, WrappingSub(x2, x1), WrappingSub(y2, y1)))

\* No call has been made yet
LayIdle == lay_in.op = "none"

\* rect.contains(x, y)
CallContains ==
    /\ LayIdle
    /\ \E r \in RectSamples, x \in U16Samples, y \in U16Samples, build \in Builds :
           /\ lay_in' = [op |-> "contains", self |-> r, x |-> x, y |-> y, build |-> build]
           /\ lay_out' = RectContains(r, x, y, build)
    /\ LayFrame

\* rect.inner(margin)
CallInner ==
    /\ LayIdle
    /\ \E r \in RectSamples, margin \in U16Samples \cup {32768}, build \in Builds :
           /\ lay_in' = [op |-> "inner", self |-> r, x |-> margin, build |-> build]
           /\ lay_out' = RectInner(r, margin)
    /\ LayFrame

\* rect.split_h(at), rect.split_v(at)
CallSplit ==
    /\ LayIdle
    /\ \E r \in RectSamples, at \in U16Samples, build \in Builds, op \in {"split_h", "split_v"} :
           /\ lay_in' = [op |-> op, self |-> r, x |-> at, build |-> build]
           /\ lay_out' = IF op = "split_h" THEN RectSplitH(r, at) ELSE RectSplitV(r, at)
    /\ LayFrame

\* rect.intersect(&other)
CallIntersect ==
    /\ LayIdle
    /\ \E r \in RectSamples, o \in RectSamples, build \in Builds :
           /\ lay_in' = [op |-> "intersect", self |-> r, other |-> o, build |-> build]
           /\ lay_out' = RectIntersect(r, o, build)
    /\ LayFrame

\* rect.union(&other)
CallUnion ==
    /\ LayIdle
    /\ \E r \in RectSamples, o \in RectSamples, build \in Builds :
           /\ lay_in' = [op |-> "union", self |-> r, other |-> o, build |-> build]
           /\ lay_out' = RectUnion(r, o, build)
    /\ LayFrame

RectNext == CallContains \/ CallInner \/ CallSplit \/ CallIntersect \/ CallUnion

(***************************************************************************)
(* Row and Column (layout/containers.rs).  The two layouts are the same    *)
(* computation along x and along y.  The share of a Fill item is computed  *)
(* in f32 and cast to u16; f32 keeps 24 significant bits and rounds to     *)
(* nearest, ties to even, and the cast truncates and saturates.            *)
(***************************************************************************)
\* Length::Fixed(n), Length::Fill(weight), Length::Min(n), Length::Max(n)
Fixed(n) == [kind |-> "Fixed", n |-> n]

Fill(w) == [kind |-> "Fill", n |-> w]

AtLeast(n) == [kind |-> "Min", n |-> n]

AtMost(n) == [kind |-> "Max", n |-> n]

\* The lengths the layouts are called with
LengthSamples == {Fill(0), Fill(1), Fill(2), Fill(40000), Fill(U16Max), Fixed(30), AtMost(50)}

\* The main-axis extents of the areas the layouts are called with
ExtentSamples == {0, 1, 100, 32767}

\* The gaps of the layouts
GapSamples == {0, 5}

\* Justify::Start, End, Center and the three Space* modes, which lay out as Start
JustifySamples == {"Start", "End", "Center", "SpaceBetween"}

\* 2^k
RECURSIVE Pow2(_)
Pow2(k) == IF k = 0 THEN 1 ELSE 2 * Pow2(k - 1)

\* The number of bits of n: 0 for 0, floor(log2 n) + 1 otherwise
RECURSIVE BitLen(_)
BitLen(n) == IF n = 0 THEN 0 ELSE 1 + BitLen(n \div 2)

\* The f32 nearest to the integer n, ties to even
F32OfInt(n) ==
    IF BitLen(n) <= 24 THEN n
    ELSE LET unit == Pow2(BitLen(n) - 24)
             lo == (n \div unit) * unit
             rest == n - lo
         IN  IF 2 * rest > unit \/ (2 * rest = unit /\ (n \div unit) % 2 = 1)
             THEN lo + unit
             ELSE lo

\* (p / w) as u16 for f32 values p and w that are integers, w > 0: the quotient
\* rounded to f32, then truncated and saturated.  The rounded quotient
\* reaches the next integer when it is within half a unit in the last place.
F32DivAsU16(p, w) ==
    LET q == p \div w
        rest == p % w
    IN  IF q >= U16Max THEN U16Max
        ELSE IF /\ rest # 0 /\ q >= 1 /\ w - rest <= 127
                /\ (w - rest) * Pow2(25 - BitLen(q)) <= w
             THEN q + 1
             ELSE q

\* A share rounded to the nearest integer
FillShareNearest(remaining, weight, total_fill_weight) ==
    LET q == (remaining * weight) \div total_fill_weight
        rest == (remaining * weight) % total_fill_weight
    IN  Min(IF 2 * rest >= total_fill_weight THEN q + 1 ELSE q, U16Max)

\* ((remaining as f32) * (weight as f32) / (total_fill_weight as f32)) as u16
FillShare(remaining, weight, total_fill_weight) ==
    F32DivAsU16(F32OfInt(remaining * weight), total_fill_weight)

\* Length::resolve, for the lengths that are not Fill
Resolve(len, available) ==
    CASE len.kind = "Fixed" -> len.n
      [] len.kind \in {"Min", "Max"} -> Min(len.n, available)
      [] len.kind = "Fill" -> available

\* Phase 1: [sizes, remaining, total_fill_weight] after the first i lengths
RECURSIVE Phase1(_, _, _)
Phase1(lens, i, available) ==
    IF i = 0
    THEN [sizes |-> [k \in 1..Len(lens) |-> 0], remaining |-> available,
          total_fill_weight |-> 0]
    ELSE LET p == Phase1(lens, i - 1, available) IN
         IF lens[i].kind = "Fill"
         THEN [p EXCEPT !.total_fill_weight = SaturatingAdd(@, lens[i].n)]
         ELSE LET size == Resolve(lens[i], available) IN
              [p EXCEPT !.sizes[i] = size, !.remaining = SaturatingSub(@, size)]

\* Phase 2: the sizes, the Fill items given their shares
Phase2(lens, available) ==
    LET p == Phase1(lens, Len(lens), available) IN
    IF p.total_fill_weight > 0
    THEN [k \in 1..Len(lens) |->
             IF lens[k].kind = "Fill"
             THEN FillShare(p.remaining, lens[k].n, p.total_fill_weight)
             ELSE p.sizes[k]]
    ELSE p.sizes

\* The sum of a sequence over the integers
RECURSIVE SumSeq(_)
SumSeq(s) == IF s = <<>> THEN 0 ELSE Head(s) + SumSeq(Tail(s))

\* The main-axis position of item k: each item follows the one before it and the gap
RECURSIVE MainPos(_, _, _, _)
MainPos(first, sizes, gap, k) ==
    IF k = 1 THEN first
    ELSE SaturatingAdd(SaturatingAdd(MainPos(first, sizes, gap, k - 1), sizes[k - 1]), gap)

\* Phase 3 of Row::layout and Column::layout on an area with main-axis origin
\* `origin` and extent `extent`: [panic, val], val the <<position, size>> of
\* each item.  sizes.iter().sum() is a u16 sum: it panics on overflow in a
\* build with overflow checks and wraps in one without.
MainLayout(origin, extent, gap, justify, lens, build) ==
    IF lens = <<>> THEN Returns(<<>>)
    ELSE LET n == Len(lens)
             total_gap == SaturatingMul(gap, n - 1)
             available == SaturatingSub(extent, total_gap)
             sizes == Phase2(lens, available)
             total_size == SumSeq(sizes) % (U16Max + 1)
             total_with_gaps == SaturatingAdd(total_size, total_gap)
             first == CASE justify = "End" ->
                               SaturatingAdd(origin, SaturatingSub(extent, total_with_gaps))
                        [] justify = "Center" ->
                               SaturatingAdd(origin, SaturatingSub(extent, total_with_gaps) \div 2)
                        [] OTHER -> origin
         IN  IF SumSeq(sizes) > U16Max /\ build = "debug" THEN Panics
             ELSE Returns([k \in 1..n |-> <<MainPos(first, sizes, gap, k), sizes[k]>>])

\* Row::layout(area, child_widths): the cross axis is the full height at area.y
RowLayout(area, gap, justify, lens, build) ==
    LET main == MainLayout(area.x, area.width, gap, justify, lens, build) IN
    IF main.panic THEN Panics
    ELSE Returns([k \in 1..Len(lens) |->
                     Rect(main.val[1][k][1], area.y, main.val[1][k][2], area.height)])

\* Column::layout(area, child_heights): the cross axis is the full width at area.x
ColumnLayout(area, gap, justify, lens, build) ==
    LET main == MainLayout(area.y, area.height, gap, justify, lens, build) IN
    IF main.panic THEN Panics
    ELSE Returns([k \in 1..Len(lens) |->
                     Rect(area.x, main.val[1][k][1], area.width, main.val[1][k][2])])

\* The sequences of at most n lengths
LengthSeqs(n) == UNION {[1..k -> LengthSamples] : k \in 0..n}

\* Row::new().gap(g).justify(j).layout(area, &lens)
CallRow ==
    /\ LayIdle
    /\ \E extent \in ExtentSamples, origin \in {0, 7}, gap \in GapSamples,
          justify \in JustifySamples, lens \in LengthSeqs(MaxItems), build \in Builds :
           LET area == Rect(origin, 0, extent, 20) IN
           /\ lay_in' = [op |-> "row", self |-> area, gap |-> gap, justify |-> justify,
                         lens |-> lens, build |-> build]
           /\ lay_out' = RowLayout(area, gap, justify, lens, build)
    /\ LayFrame

\* Column::new().gap(g).justify(j).layout(area, &lens)
CallColumn ==
    /\ LayIdle
    /\ \E extent \in ExtentSamples, origin \in {0, 7}, gap \in GapSamples,
          justify \in JustifySamples, lens \in LengthSeqs(MaxItems), build \in Builds :
           LET area == Rect(0, origin, 20, extent) IN
           /\ lay_in' = [op |-> "column", self |-> area, gap |-> gap, justify |-> justify,
                         lens |-> lens, build |-> build]
           /\ lay_out' = ColumnLayout(area, gap, justify, lens, build)
    /\ LayFrame

ContainerNext == CallRow \/ CallColumn

(***************************************************************************)
(* Flex (layout/flex.rs).  grow and shrink are f32 values that are whole     *)
(* numbers here; min and max are Options, <<>> or <<n>>.  The sizes of the *)
(* model stay far below u16::MAX, so no u16 sum overflows.                  *)
(***************************************************************************)
\* A FlexItem
FlexItem(grow, shrink, basis, min, max) ==
    [grow |-> grow, shrink |-> shrink, basis |-> basis, min |-> min, max |-> max]

\* FlexItem::new(): grow 0.0, shrink 1.0, basis Fill(0), no min, no max
FlexItemNew == FlexItem(0, 1, Fill(0), <<>>, <<>>)

\* The items the containers are built from
FlexItemSamples ==
    { [FlexItemNew EXCEPT !.basis = Fixed(10)],
      [FlexItemNew EXCEPT !.basis = Fixed(60)],
      [FlexItemNew EXCEPT !.basis = Fixed(61)],
      [FlexItemNew EXCEPT !.basis = Fixed(60), !.shrink = 2],
      [FlexItemNew EXCEPT !.basis = Fixed(60), !.shrink = 0],
      [FlexItemNew EXCEPT !.basis = Fixed(60), !.min = <<50>>],
      [FlexItemNew EXCEPT !.grow = 1],
      [FlexItemNew EXCEPT !.grow = 1, !.max = <<40>>] }

\* The main-axis sizes of the containers
FlexMainSamples == {29, 80, 120}

\* The closure of calculate_base_sizes for one item
BaseSize(item, main_size) ==
    LET base == CASE item.basis.kind = "Fixed" -> item.basis.n
                  [] item.basis.kind = "Fill" -> 0
                  [] item.basis.kind = "Min" -> item.basis.n
                  [] item.basis.kind = "Max" -> Min(item.basis.n, main_size)
        atleast == IF item.min # <<>> THEN Max(base, item.min[1]) ELSE base
    IN  IF item.max # <<>> THEN Min(atleast, item.max[1]) ELSE atleast

\* Flex::calculate_base_sizes
CalculateBaseSizes(items, main_size) ==
    [i \in 1..Len(items) |-> BaseSize(items[i], main_size)]

\* self.items.iter().map(|item| item.grow).sum(), and the same for shrink
RECURSIVE SumOf(_, _, _)
SumOf(items, field, i) ==
    IF i = 0 THEN 0 ELSE items[i][field] + SumOf(items, field, i - 1)

\* Flex::grow_items
GrowItems(items, sizes, main_size) ==
    LET remaining == SaturatingSub(main_size, SumSeq(sizes))
        total_grow == SumOf(items, "grow", Len(items))
    IN  IF remaining = 0 \/ total_grow <= 0 THEN sizes
        ELSE [i \in 1..Len(items) |->
                 IF items[i].grow > 0
                 THEN LET grow_amount ==
                              F32DivAsU16(F32OfInt(remaining * items[i].grow), total_grow)
                          new_size == sizes[i] + grow_amount
                      IN  IF items[i].max # <<>> THEN Min(new_size, items[i].max[1])
                          ELSE new_size
                 ELSE sizes[i]]

\* Flex::shrink_items
ShrinkItems(items, sizes, main_size) ==
    LET overflow == SaturatingSub(SumSeq(sizes), main_size)
        total_shrink == SumOf(items, "shrink", Len(items))
    IN  IF overflow = 0 \/ total_shrink <= 0 THEN sizes
        ELSE [i \in 1..Len(items) |->
                 IF items[i].shrink > 0 /\ sizes[i] > 0
                 THEN LET shrink_amount ==
                              F32DivAsU16(F32OfInt(overflow * items[i].shrink), total_shrink)
                          new_size == SaturatingSub(sizes[i], shrink_amount)
                      IN  IF items[i].min # <<>> THEN Max(new_size, items[i].min[1])
                          ELSE new_size
                 ELSE sizes[i]]

\* Flex::sizes_to_rects
SizesToRects(direction, sizes, container, cross_size) ==
    [i \in 1..Len(sizes) |->
        LET offset == SumSeq(SubSeq(sizes, 1, i - 1)) IN
        IF direction = "Row"
        THEN Rect(container.x + offset, container.y, sizes[i],
                  Min(cross_size, container.height))
        ELSE Rect(container.x, container.y + offset,
                  Min(cross_size, container.width), sizes[i])]

\* Flex::calculate
FlexCalculate(direction, items, container) ==
    IF items = <<>> THEN <<>>
    ELSE LET main_size == IF direction = "Row" THEN container.width ELSE container.height
             cross_size == IF direction = "Row" THEN container.height ELSE container.width
             base == CalculateBaseSizes(items, main_size)
             total_size == SumSeq(base)
             sizes == IF total_size < main_size THEN GrowItems(items, base, main_size)
                      ELSE IF total_size > main_size THEN ShrinkItems(items, base, main_size)
                      ELSE base
         IN  SizesToRects(direction, sizes, container, cross_size)

\* The Vecs of at most n items
FlexItemSeqs(n) == UNION {[1..k -> FlexItemSamples] : k \in 0..n}

\* Flex::new(direction).add(item)...add(item).calculate(container)
CallFlex ==
    /\ LayIdle
    /\ \E direction \in {"Row", "Column"}, main \in FlexMainSamples,
          items \in FlexItemSeqs(MaxItems) :
           LET container == IF direction = "Row" THEN Rect(0, 0, main, 10)
                            ELSE Rect(0, 0, 10, main) IN
           /\ lay_in' = [op |-> "flex", self |-> container, direction |-> direction,
                         items |-> items]
           /\ lay_out' = Returns(FlexCalculate(direction, items, container))
    /\ LayFrame

FlexNext == CallFlex

(***************************************************************************)
(* Buffer (render/buffer.rs) as an object: one buffer, and the calls new,  *)
(* get, set, clear and resize on it.                                       *)
(***************************************************************************)
\* The widths and heights the buffers are made with
CanvasSizes == {0, 1, 2}

\* The cells written
CanvasCells == {CellNew(65), CellWithStyle(66, RED, NoColor, 0)}

\* Buffer::clear
BufferClear(b) == [b EXCEPT !.cells = [k \in 1..Len(b.cells) |-> DefaultCell]]

\* Buffer::resize
BufferResize(b, w, h) ==
    [b EXCEPT !.width = w, !.height = h, !.cells = [k \in 1..(w * h) |-> DefaultCell]]

CanvasInit ==
    /\ canvas = BufferNew(0, 0)
    /\ canvas_op = [op |-> "none", n |-> 0]

CanvasFrame ==
    UNCHANGED <<diffVars, sigVars, derVars, storeVars, routerVars, focusVars, appVars, layVars,
                rendVars, orderVars>>

\* The record of a call
CanvasCall(op, x, y, cell, ret) ==
    [op |-> op, x |-> x, y |-> y, cell |-> cell, before |-> canvas, ret |-> ret,
     n |-> canvas_op.n + 1]

\* let buffer = Buffer::new(w, h)
CanvasNew ==
    /\ canvas_op.n < MaxBufferCalls
    /\ \E w \in CanvasSizes, h \in CanvasSizes :
           /\ canvas' = BufferNew(w, h)
           /\ canvas_op' = CanvasCall("new", w, h, DefaultCell, <<>>)
    /\ CanvasFrame

\* buffer.set(x, y, cell)
CanvasSet ==
    /\ canvas_op.n < MaxBufferCalls
    /\ \E x \in CanvasSizes, y \in CanvasSizes, cell \in CanvasCells :
           /\ canvas' = BufferSet(canvas, x, y, cell)
           /\ canvas_op' = CanvasCall("set", x, y, cell, <<>>)
    /\ CanvasFrame

\* buffer.get(x, y)
CanvasGet ==
    /\ canvas_op.n < MaxBufferCalls
    /\ \E x \in CanvasSizes, y \in CanvasSizes :
           canvas_op' = CanvasCall("get", x, y, DefaultCell, BufferGet(canvas, x, y))
    /\ UNCHANGED canvas
    /\ CanvasFrame

\* buffer.clear()
CanvasClear ==
    /\ canvas_op.n < MaxBufferCalls
    /\ canvas' = BufferClear(canvas)
    /\ canvas_op' = CanvasCall("clear", 0, 0, DefaultCell, <<>>)
    /\ CanvasFrame

\* buffer.resize(w, h)
CanvasResize ==
    /\ canvas_op.n < MaxBufferCalls
    /\ \E w \in CanvasSizes, h \in CanvasSizes :
           /\ canvas' = BufferResize(canvas, w, h)
           /\ canvas_op' = CanvasCall("resize", w, h, DefaultCell, <<>>)
    /\ CanvasFrame

BufferNext == CanvasNew \/ CanvasSet \/ CanvasGet \/ CanvasClear \/ CanvasResize

(***************************************************************************)
(* ViewNode::render (view/mod.rs): a view tree is painted into a blank     *)
(* buffer within an area.  Styles are the default style throughout.        *)
(***************************************************************************)
\* ViewNode::text(content), the content a sequence of characters
TextNode(content) == [kind |-> "Text", content |-> content]

\* ViewNode::empty()
EmptyNode == [kind |-> "Empty"]

\* ViewNode::container_with_direction(children, direction)
ContainerNode(children, direction) ==
    [kind |-> "Container", children |-> children, direction |-> direction]

\* The texts painted: at most MaxText characters of 'A' and 'B'
TextSamples == UNION {[1..k -> {65, 66}] : k \in 0..MaxText}

\* The leaves of the trees painted
LeafSamples == {TextNode(t) : t \in TextSamples} \cup {EmptyNode}

\* The trees painted: a leaf, or a container of one or two leaves
NodeSamples ==
    LeafSamples
    \cup {ContainerNode(cs, d) :
             cs \in [1..1 -> LeafSamples] \cup [1..2 -> LeafSamples],
             d \in {"Vertical", "Horizontal", "Stacked"}}

\* The buffer painted into is ViewWidth x ViewHeight
ViewWidth == 4

ViewHeight == 2

\* The areas trees are painted in
AreaSamples == {Rect(0, 0, 4, 2), Rect(0, 0, 2, 1), Rect(1, 1, 2, 1), Rect(0, 0, 1, 2)}

\* RenderContext::write_str: for (i, ch) in s.chars().enumerate()
\*     { self.buffer.set(x + i as u16, y, Cell::with_style(ch, style)) }
RECURSIVE WriteStr(_, _, _, _, _)
WriteStr(buf, x, y, s, i) ==
    IF i > Len(s) THEN buf
    ELSE WriteStr(BufferSet(buf, x + (i - 1), y, CellWithStyle(s[i], NoColor, NoColor, 0)),
                  x, y, s, i + 1)

\* The rectangles a container gives its children: Column::new() or Row::new()
\* with Length::Fill(1) for each child, or the whole area for each when stacked
ChildRects(area, direction, n) ==
    LET fills == [k \in 1..n |-> Fill(1)] IN
    CASE direction = "Vertical" -> ColumnLayout(area, 0, "Start", fills, "release").val[1]
      [] direction = "Horizontal" -> RowLayout(area, 0, "Start", fills, "release").val[1]
      [] direction = "Stacked" -> [k \in 1..n |-> area]

\* ViewNode::render of a leaf in its area
RenderLeaf(node, area, buf) ==
    IF node.kind = "Text" THEN WriteStr(buf, area.x, area.y, node.content, 1) ELSE buf

\* The children of a container rendered in order, each in its rectangle
RECURSIVE RenderChildren(_, _, _, _)
RenderChildren(children, rects, k, buf) ==
    IF k > Len(children) \/ k > Len(rects) THEN buf
    ELSE RenderChildren(children, rects, k + 1, RenderLeaf(children[k], rects[k], buf))

\* ViewNode::render
RenderNode(node, area, buf) ==
    IF node.kind = "Container"
    THEN IF node.children = <<>> THEN buf
         ELSE RenderChildren(node.children,
                             ChildRects(area, node.direction, Len(node.children)), 1, buf)
    ELSE RenderLeaf(node, area, buf)

\* node.render(&mut RenderContext::new(&mut buffer, area, &store)) on a blank buffer
ViewRender ==
    /\ canvas_op.op = "none"
    /\ \E node \in NodeSamples, area \in AreaSamples :
           /\ canvas' = RenderNode(node, area, BufferNew(ViewWidth, ViewHeight))
           /\ canvas_op' = [op |-> "render", node |-> node, area |-> area, n |-> 1]
    /\ CanvasFrame

ViewNext == ViewRender

(***************************************************************************)
(* Renderer::render called on its own, with and without a previous buffer. *)
(***************************************************************************)
\* The buffers the renderer is called with
RenderSizes == {<<2, 1>>, <<1, 2>>}

\* The cells they hold
RenderCells == {DefaultCell, CellWithStyle(65, RED, NoColor, 0)}

RenderBuffers ==
    UNION { { [width |-> s[1], height |-> s[2], cells |-> cs] :
                cs \in [1..(s[1] * s[2]) -> RenderCells] } : s \in RenderSizes }

\* Renderer::new, and no call made yet
RendererInit ==
    rcall = [prev |-> <<>>, buffer |-> BufferNew(0, 0), was_first |-> TRUE,
             calls |-> <<>>, ret |-> "", n |-> 0]

RendererFrame ==
    UNCHANGED <<diffVars, sigVars, derVars, storeVars, routerVars, focusVars, layVars,
                canvasVars, orderVars>>

\* renderer.render(backend, prev_buffer, buffer): the backend carries out the
\* calls up to the first that returns Err, if any does, and `?` returns that Err
CallRender ==
    /\ rcall.n < MaxRenders
    /\ \E prev \in {<<>>} \cup {<<b>> : b \in RenderBuffers}, buf \in RenderBuffers :
           \E calls \in {RenderCalls(first_render, prev, buf)} :
           \E made \in 0..Len(calls) :
               /\ first_render' = IF first_render \/ prev = <<>> THEN FALSE ELSE first_render
               /\ term' = Carried(term, SubSeq(calls, 1, made), 1)
               /\ rcall' = [prev |-> prev, buffer |-> buf, was_first |-> first_render,
                            calls |-> SubSeq(calls, 1, made),
                            ret |-> IF made = Len(calls) THEN "Ok" ELSE "Err",
                            n |-> rcall.n + 1]
    /\ UNCHANGED <<root, app_pc, should_quit, buffer, prev_buffer, app_locals, ahist>>
    /\ RendererFrame

RendererNext == CallRender

(***************************************************************************)
(* The specifications.                                                     *)
(***************************************************************************)
Init == DiffInit /\ SignalInit /\ DerivedInit /\ StoreInit /\ RouterInit /\ FocusInit /\ AppInit /\ LayoutInit /\ CanvasInit /\ RendererInit /\ OrderInit

SpecDiff == Init /\ [][DiffNext]_vars

SpecSignal == Init /\ [][SignalNext]_vars

SpecSignalRW == Init /\ [][SignalRWNext]_vars

SpecDerived == Init /\ [][DerivedNext]_vars

SpecStore == Init /\ [][StoreNext]_vars

SpecRouter == Init /\ [][RouterNext]_vars

SpecFocus == Init /\ [][FocusManagerNext]_vars

SpecApp == Init /\ [][AppNext]_vars

SpecRect == Init /\ [][RectNext]_vars

SpecContainers == Init /\ [][ContainerNext]_vars

SpecBuffer == Init /\ [][BufferNext]_vars

SpecView == Init /\ [][ViewNext]_vars

SpecSignalPanic == Init /\ [][SignalPanicNext]_vars

SpecRenderer == Init /\ [][RendererNext]_vars

SpecRouterAny == Init /\ [][RouterAnyNext]_vars

SpecFlex == Init /\ [][FlexNext]_vars

SpecStoreDetach == Init /\ [][StoreDetachNext]_vars

SpecSignalOrder == Init /\ [][SignalOrderNext]_vars

\* A thread that can again and again take a step of a call, its own or a
\* closure's, eventually takes it: no thread is starved of a lock that keeps
\* becoming free.  Whether a closure calls the signal, and whether the build
\* panics on a lock taken twice, is not forced.
SpecSignalReentrant ==
    Init /\ [][SignalReentrantNext]_vars /\ \A t \in Threads : SF_vars(Step(t))

\* A thread that can take a step of its call eventually takes it.
SpecSignalFair ==
    Init /\ [][SignalGetNext]_vars /\ \A t \in Threads : WF_vars(Step(t))

(***************************************************************************)
(* Claims about the differ.                                                *)
(***************************************************************************)
\* Rect::contains for a point
Covers(r, x, y) ==
    /\ x >= r.x /\ x < r.x + r.width
    /\ y >= r.y /\ y < r.y + r.height

\* C1: every position whose cell differs between old and new (in character,
\* foreground, background or modifiers) lies inside at least one region
\* returned by compute_diff(old, new).
C1_DiffCoversChanges ==
    diffed =>
        \A x \in 0..(newBuf.width - 1), y \in 0..(newBuf.height - 1) :
            BufferGet(oldBuf, x, y) # BufferGet(newBuf, x, y)
                => \E k \in 1..Len(dirty) : Covers(dirty[k], x, y)

(***************************************************************************)
(* Claims about Signal.                                                    *)
(***************************************************************************)
IsMutation(t) == th[t].op \in {"set", "update"}

\* The values the call in progress of t has delivered to subscriber s
RECURSIVE DeliveredIn(_, _)
DeliveredIn(inv, s) ==
    IF inv = <<>> THEN <<>>
    ELSE (IF Head(inv)[1] = s THEN <<Head(inv)[2]>> ELSE <<>>)
         \o DeliveredIn(Tail(inv), s)

\* C2: a set or update call invokes each subscriber whose Subscription is alive
\* for the whole call exactly once, with the value the call installed; and no
\* subscriber more than once.
C2_SurvivorsInvokedOnce ==
    \A t \in Threads :
        /\ \A s \in 0..(next_sub_id - 1) : Len(DeliveredIn(hist[t].inv, s)) <= 1
        /\ (IsMutation(t) /\ AtReturn(t)) =>
               \A s \in hist[t].startSubs \cap Owned :
                   DeliveredIn(hist[t].inv, s) = <<hist[t].installed>>

\* A call by one thread returns, while a second mutation is under way, having
\* notified two subscribers that lived through it.
C2_Witness ==
    \E t \in Threads :
        /\ IsMutation(t) /\ AtReturn(t)
        /\ Cardinality(hist[t].startSubs \cap Owned) >= 2
        /\ \E u \in Threads \ {t} : IsMutation(u)

\* C3 (as claimed): once the drop of a Subscription has completed its callback
\* is never invoked again, whatever the interleaving with set and update.
C3_NeverInvokedAfterDrop ==
    [][\A t \in Threads :
          (th[t].held # NoSub /\ th'[t].held = NoSub) => th[t].held \notin Dropped]_vars

\* C3 (amended): a notification walk that locks the subscriber list after the
\* drop of a Subscription has completed never upgrades its entry and never
\* invokes its callback.
C3_NotInvokedByLaterWalks ==
    \A t \in Threads :
        /\ th[t].held \notin hist[t].walkDropped
        /\ \A k \in 1..Len(hist[t].inv) : hist[t].inv[k][1] \notin hist[t].walkDropped

\* The only call made so far began its walk after a drop, reaped the dead entry
\* and has finished.
C3_Witness ==
    \E t \in Threads :
        /\ IsMutation(t) /\ AtReturn(t)
        /\ ghost.started = 1
        /\ \E s \in hist[t].walkDropped : s \notin Range(subscribers)

\* C4: the version starts at 0, never decreases, and grows by exactly 1 for
\* every set or update call: it lies between the calls completed and the calls
\* begun; and a thread that reads the version after a mutation it made reads
\* more than it read before that mutation.
C4_VersionCountsMutations ==
    /\ version = 0
    /\ [](ghost.completed <= version /\ version <= ghost.started)
    /\ [][version' = version \/ version' = version + 1]_vars
    /\ [][\A t \in Threads :
             /\ hist'[t].obs >= hist[t].obs
             /\ (hist[t].mutated /\ ~hist'[t].mutated) => hist'[t].obs > hist[t].obs]_vars

\* Both mutations have completed and a thread has read version 2 after them.
C4_Witness ==
    /\ ghost.completed = 2
    /\ version = 2
    /\ \E t \in Threads : hist[t].obs = 2 /\ ~hist[t].mutated

\* The value a get of t reads now was written by the mutation that produced the
\* version t last observed, or by a later write.
FreshRead(t) == hist[t].obs > 0 => (hist[t].obsW > 0 /\ ghost.writes >= hist[t].obsW)

\* C5: a call writes the value, then increments the version, then notifies: the
\* writes performed are at least the version, the mutation that produced the
\* current version had written before, a thread walking the subscribers has
\* written and incremented; and a get that follows the observation of a version
\* reads that mutation's value or a later one.
C5_WriteThenVersionThenNotify ==
    /\ [](/\ ghost.writes >= version
          /\ version > 0 => ghost.lastW > 0
          /\ \A t \in Threads : subsMutex = t => (hist[t].widx > 0 /\ hist[t].ver > 0))
    /\ [][\A t \in Threads :
             (AtLabel(t, "read") /\ th'[t].pc # th[t].pc) => FreshRead(t)]_vars

\* A reader that had observed a version produced by a mutation has read the value.
C5_Witness ==
    \E t \in Threads :
        /\ th[t].op = "get" /\ AtReturn(t)
        /\ hist[t].obs >= 1
        /\ ghost.writes = 2

\* C6: every get call eventually returns, whatever set, update, subscribe and
\* get calls the other threads make.
C6_GetReturns ==
    \A t \in Threads : (th[t].op = "get") ~> (th[t].op = "get" /\ AtReturn(t))

\* Two get calls hold their read guards at the same time.
C6_Witness == rwReaders = Threads

(***************************************************************************)
(* Claims about Derived.                                                   *)
(***************************************************************************)
\* C7: between two successive invalidate() calls (and between construction and
\* the first), the compute closure is invoked at most once in total, however
\* many get() calls are made and from however many threads.
C7_ComputeOncePerInvalidation == dghost.computes <= 1

\* C8: a get() that starts after a source change and its invalidate() have
\* returned returns a value whose compute call began after that invalidate and
\* saw that source change, never a value computed before it.
C8_GetAfterInvalidateIsFresh ==
    \A t \in Threads :
        (dth[t].op = "get" /\ DAtReturn(t)) =>
            /\ dth[t].ret.epoch >= dth[t].start
            /\ dth[t].ret.seen >= dth[t].need
            /\ dth[t].ret.val = Compute(src) \/ dghost.srcSeq > dth[t].ret.seen

\* A get that began after a refresh returns, having found in the cache the older
\* result that a get begun before the invalidate wrote after it.
C8_Witness ==
    \E t \in Threads :
        /\ dth[t].op = "get" /\ DAtReturn(t)
        /\ dth[t].need >= 1
        /\ dth[t].saw # <<>>
        /\ dth[t].saw[1].epoch < dth[t].start
        /\ dth[t].saw[1].wroteAt >= dth[t].start

(***************************************************************************)
(* Claims about Store.                                                     *)
(***************************************************************************)
\* A call of get_or_create, or of set, takes the step that answers it
Answers(t) ==
    /\ sth[t].op \in {"get_or_create", "set"}
    /\ sth[t].pc = 2
    /\ sth'[t].pc > 2

\* C9: get_or_create on a key bound to a signal of the requested type returns
\* that same signal, leaving its value and version as they are and ignoring the
\* default; on an absent key it binds one new signal holding the default; and
\* calls that meet on the same absent key all return the one signal bound to it.
C9_GetOrCreateSharesOneSignal ==
    /\ [][\A t \in Threads :
            Answers(t) /\ signals[sth[t].key] # NoSig /\ Downcast(sth[t].key, sth[t].ty) =>
                /\ sth'[t].sig = signals[sth[t].key]
                /\ signals' = signals /\ heap' = heap]_vars
    /\ [][\A t \in Threads :
            Answers(t) /\ signals[sth[t].key] = NoSig =>
                /\ sth'[t].sig = signals'[sth[t].key]
                /\ sth'[t].sig = Len(heap) + 1
                /\ heap'[sth'[t].sig] = [ty |-> sth[t].ty, value |-> sth[t].arg, version |-> 0,
                                          subs |-> <<>>]]_vars
    /\ [](\A t, u \in Threads :
            /\ sth[t].op = "get_or_create" /\ SAtReturn(t) /\ sth[t].out = "ok"
            /\ sth[u].op = "get_or_create" /\ SAtReturn(u) /\ sth[u].out = "ok"
            /\ sth[t].key = sth[u].key /\ sth[t].gen = sth[u].gen
            => sth[t].sig = sth[u].sig)

\* Two get_or_create calls that both began while the key was absent, with
\* different defaults, have both returned, with the same signal.
C9_Witness ==
    \E t, u \in Threads :
        /\ t # u
        /\ sth[t].op = "get_or_create" /\ SAtReturn(t) /\ sth[t].beganAbsent
        /\ sth[u].op = "get_or_create" /\ SAtReturn(u) /\ sth[u].beganAbsent
        /\ sth[t].arg # sth[u].arg
        /\ sth[t].sig = sth[u].sig /\ sth[t].sig # NoSig

\* The key of the call is bound to a signal of another type
Mismatched(t) == signals[sth[t].key] # NoSig /\ ~Downcast(sth[t].key, sth[t].ty)

\* C10: get_or_create and set on a key bound to a signal of another type panic
\* naming the key, without rebinding the key and without changing the signal's
\* value or version; get with another type returns None and does not panic.
C10_MismatchPanicsAndGetReturnsNone ==
    [][\A t \in Threads :
          (sth[t].op # "idle" /\ sth'[t].pc # sth[t].pc /\ ~SAtReturn(t) /\ Mismatched(t)) =>
              /\ sth[t].op \in {"get_or_create", "set"} =>
                    /\ sth'[t].out \in {"", "panic_mismatch"}
                    /\ SAtReturn(t)' => sth'[t].out = "panic_mismatch"
                    /\ signals' = signals /\ heap' = heap
              /\ sth[t].op = "get" =>
                    /\ sth'[t].out \in {"", "none"}
                    /\ SAtReturn(t)' => sth'[t].out = "none"]_vars

(***************************************************************************)
(* Claims about EventRouter.                                               *)
(***************************************************************************)
\* The log entries of one phase, in the order of their invocation
LogOf(r, phase) == SelectSeq(r.log, LAMBDA e : e.phase = phase)

\* The handlers tagged `phase` of the components of `nodes`, in that order
RECURSIVE TaggedAlong(_, _, _)
TaggedAlong(nodes, k, phase) ==
    IF k > Len(nodes) THEN <<>>
    ELSE LET c == nodes[k]
             at == [i \in 1..Len(handlers[c]) |-> [component |-> c, index |-> i, phase |-> phase]]
         IN  SelectSeq(at, LAMBDA e : handlers[c][e.index].phase = phase)
             \o TaggedAlong(nodes, k + 1, phase)

\* The path without its last element, the target
Ancestors(r) == SubSeq(r.path, 1, Len(r.path) - 1)

\* C11: route invokes the capture-tagged handlers of the components on the path
\* from the root to the target, the target excluded, in root-to-target order.
C11_CaptureRootToTarget ==
    \A r \in {routed[i] : i \in 1..Len(routed)} :
        ~r.stopped => LogOf(r, "Capture") = TaggedAlong(Ancestors(r), 1, "Capture")

\* C12: in the bubble phase route invokes the bubble-tagged handlers of every
\* component on the path except the target, the target's parent first and the
\* root last; the root's are invoked, the target's are not.
C12_BubbleTargetToRoot ==
    \A r \in {routed[i] : i \in 1..Len(routed)} :
        ~r.stopped => LogOf(r, "Bubble") = TaggedAlong(Reverse(Ancestors(r)), 1, "Bubble")

\* The closure of the handler of a log entry sets the stopped flag
Stops(e) == handlers[e.component][e.index].does \in {"stop", "consume"}

\* C13: once a handler has set the stopped flag, by stop_propagation() or by
\* returning Consumed, route invokes no further handler.
C13_NothingAfterStop ==
    \A r \in {routed[i] : i \in 1..Len(routed)} :
        \A i \in 1..Len(r.log) : Stops(r.log[i]) => i = Len(r.log)

\* C14: the result of route is Consumed if a handler it invoked set stopped,
\* otherwise Handled if one called prevent_default, otherwise Ignored, whatever
\* the handlers returned.
C14_ResultFromFlags ==
    \A r \in {routed[i] : i \in 1..Len(routed)} :
        LET stopped == \E i \in 1..Len(r.log) : Stops(r.log[i])
            prevented == \E i \in 1..Len(r.log) :
                             handlers[r.log[i].component][r.log[i].index].does = "prevent"
        IN  /\ r.stopped = stopped
            /\ r.prevented = prevented
            /\ r.result = IF stopped THEN "Consumed"
                          ELSE IF prevented THEN "Handled" ELSE "Ignored"

\* A route whose only invoked handler returned Handled without prevent_default
\* has returned Ignored.
C14_Witness ==
    /\ routed # <<>>
    /\ Len(routed[1].log) = 1
    /\ handlers[routed[1].log[1].component][routed[1].log[1].index].does = "handled"
    /\ routed[1].result = "Ignored"

(***************************************************************************)
(* Claims about FocusManager.                                              *)
(***************************************************************************)
\* The indices of the focusable entries
FocusableAt == {j \in 1..Len(components) : components[j].focusable}

\* The index of the entry with this id, 0 when there is none
IndexOfId(id) ==
    IF \E j \in 1..Len(components) : components[j].id = id
    THEN CHOOSE j \in 1..Len(components) : components[j].id = id
    ELSE 0

\* The number of entries to pass, going forward and wrapping, from the entry
\* at index i (0: from before the first entry) to reach the entry at index j
StepsForward(i, j) == (j - i - 1 + Len(components)) % Len(components)

\* The same going backward (from after the last entry when i is 0)
StepsBackward(i, j) ==
    LET at == IF i = 0 THEN Len(components) + 1 ELSE i
    IN  (at - j - 1 + Len(components)) % Len(components)

C17_RegistryWellFormed ==
    /\ current = NoFocus \/ \E j \in 1..Len(components) : components[j].id = current
    /\ \A i, j \in 1..Len(components) : components[i].id = components[j].id => i = j
    /\ \A i, j \in 1..Len(components) : i < j => components[i].order <= components[j].order

\* The focused entry has been unregistered and the focus has moved to another
\* entry, in a registry that holds entries of different tab orders.
C17_Witness ==
    /\ fghost.op = "unregister"
    /\ fghost.was # NoFocus /\ current # NoFocus /\ current # fghost.was
    /\ Len(components) = 2
    /\ components[1].order < components[2].order


(***************************************************************************)
(* App::run.                                                               *)
(***************************************************************************)
\* run has returned and the App has been dropped
Returned == app_pc.mode = "done"

\* C18: whenever run has returned after entering a terminal mode, the
\* backend has been asked, after the last mode entry, to show the cursor, to
\* leave the alternate screen and to leave raw mode.
C18_RestoreAskedOnEveryReturn ==
    Returned /\ ahist.entered =>
        {"cursor_show", "leave_alt_screen", "leave_raw_mode"} \subseteq ahist.asked

\* C19: mount is called once, before any frame step; once run has returned after
\* mounting the root, unmount has been called exactly once, and no
\* handle_event or render came after it.
C19_MountOnceUnmountOnce ==
    /\ ahist.mounts <= 1
    /\ root /\ ahist.frames > 0 => ahist.mounts = 1
    /\ ~ahist.late
    /\ Returned /\ ahist.mounts = 1 => ahist.unmounts = 1

\* The place of a frame step in the order of C20
StepRank(l) ==
    CASE l = "handle_event" -> 1
      [] l = "render" -> 2
      [] l \in {"diff", "full_screen"} -> 3
      [] l = "write" -> 4
      [] l = "flush" -> 5
      [] l = "swap" -> 6

\* C20: the steps of a frame come in the order event handling, render, diff,
\* writes, flush, swap; a swap is never followed by the flush of its frame,
\* and an event polled in a frame is handled before the render of that frame.
C20_FrameStepsInOrder ==
    LET f == ahist.frame IN
    /\ \A i, j \in 1..Len(f) : i < j => StepRank(f[i]) < StepRank(f[j])
    /\ \A i \in 1..Len(f) :
           f[i] = "render" /\ ahist.polled => \E j \in 1..(i - 1) : f[j] = "handle_event"

C20_Witness ==
    ahist.frame = <<"handle_event", "render", "diff", "write", "flush", "swap">>

\* The handle_event step of the frame loop
HandlingEvent == AppAt("handle_event")

C22_UpdateBeforeRender ==
    LET f == ahist.frame IN
    \A i \in 1..Len(f) :
        f[i] = "render" /\ ahist.changed => \E j \in 1..(i - 1) : f[j] = "update"

(***************************************************************************)
(* compute_diff, continued.                                                *)
(***************************************************************************)
\* C23: every region compute_diff returns for buffers of equal dimensions is
\* one row tall, and of two regions on one row the one further right begins
\* after the end of the other (next.x > current.x + current.width) and, not
\* being within one cell of it, after the cell that follows that end.
C23_RegionsOneRowAndApart ==
    diffed =>
        /\ \A i \in 1..Len(dirty) : dirty[i].height = 1
        /\ \A i, j \in 1..Len(dirty) :
               i # j /\ dirty[i].y = dirty[j].y /\ dirty[i].x <= dirty[j].x =>
                   /\ dirty[j].x > dirty[i].x + dirty[i].width
                   /\ dirty[j].x > dirty[i].x + dirty[i].width + 1

\* Two regions on one row
C23_Witness ==
    /\ diffed
    /\ Len(dirty) = 2
    /\ dirty[1].y = dirty[2].y

\* C24: compute_diff returns no region when old and new have equal dimensions
\* and equal cells at every position.
C24_EqualBuffersNoRegions ==
    diffed /\ oldBuf = newBuf => dirty = <<>>

\* Equal buffers that are not blank have been diffed
C24_Witness ==
    /\ diffed
    /\ oldBuf = newBuf
    /\ oldBuf # BufferNew(BufWidth, BufHeight)

(***************************************************************************)
(* Rect.                                                                   *)
(***************************************************************************)
\* v clamped to the u16 range
Clamp(v) == IF v < 0 THEN 0 ELSE IF v > U16Max THEN U16Max ELSE v

\* What a Rect operation gives when computed over the integers and clamped
Clamped(in) ==
    LET r == in.self IN
    CASE in.op = "contains" ->
             /\ in.x >= r.x /\ in.x < r.x + r.width
             /\ in.y >= r.y /\ in.y < r.y + r.height
      [] in.op = "inner" ->
             Rect(Clamp(r.x + in.x), Clamp(r.y + in.x),
                  Clamp(r.width - Clamp(2 * in.x)), Clamp(r.height - Clamp(2 * in.x)))
      [] in.op = "split_h" ->
             <<Rect(r.x, r.y, Clamp(IF in.x < r.width THEN in.x ELSE r.width), r.height),
               Rect(Clamp(r.x + in.x), r.y, Clamp(r.width - in.x), r.height)>>
      [] in.op = "split_v" ->
             <<Rect(r.x, r.y, r.width, Clamp(IF in.x < r.height THEN in.x ELSE r.height)),
               Rect(r.x, Clamp(r.y + in.x), r.width, Clamp(r.height - in.x))>>
      [] in.op = "intersect" ->
             LET o == in.other
                 x1 == IF r.x > o.x THEN r.x ELSE o.x
                 y1 == IF r.y > o.y THEN r.y ELSE o.y
                 x2 == IF r.x + r.width < o.x + o.width THEN r.x + r.width ELSE o.x + o.width
                 y2 == IF r.y + r.height < o.y + o.height THEN r.y + r.height ELSE o.y + o.height
             IN  IF x1 < x2 /\ y1 < y2
                 THEN <<Rect(x1, y1, Clamp(x2 - x1), Clamp(y2 - y1))>>
                 ELSE <<>>
      [] in.op = "union" ->
             LET o == in.other
                 x1 == IF r.x < o.x THEN r.x ELSE o.x
                 y1 == IF r.y < o.y THEN r.y ELSE o.y
                 x2 == IF r.x + r.width > o.x + o.width THEN r.x + r.width ELSE o.x + o.width
                 y2 == IF r.y + r.height > o.y + o.height THEN r.y + r.height ELSE o.y + o.height
             IN  Rect(x1, y1, Clamp(x2 - x1), Clamp(y2 - y1))

\* C25: every Rect operation returns, without a panic, the result computed
\* over the integers and clamped to the u16 range, also for rectangles whose
\* x + width or y + height exceeds 65535.
C25_RectOpsSaturate ==
    lay_in.op \in {"contains", "inner", "split_h", "split_v", "intersect", "union"} =>
        lay_out = Returns(Clamped(lay_in))

(***************************************************************************)
(* Row and Column.                                                         *)
(***************************************************************************)
\* A Row or Column layout call has been made
LaidOut == lay_in.op \in {"row", "column"}

\* The main-axis sizes of the rectangles a layout call returned
MainSizes ==
    [k \in 1..Len(lay_out.val[1]) |->
        IF lay_in.op = "row" THEN lay_out.val[1][k].width ELSE lay_out.val[1][k].height]

\* The main extent of the area of the call minus the total gap
Available ==
    LET extent == IF lay_in.op = "row" THEN lay_in.self.width ELSE lay_in.self.height
        total_gap == Clamp(lay_in.gap * (Len(lay_in.lens) - 1))
    IN  Clamp(extent - total_gap)

\* The items of the call are all Fill, at least one, with a positive total weight
AllFill ==
    /\ Len(lay_in.lens) >= 1
    /\ \A k \in 1..Len(lay_in.lens) : lay_in.lens[k].kind = "Fill"
    /\ \E k \in 1..Len(lay_in.lens) : lay_in.lens[k].n > 0

\* C26: with n >= 1 items, all Fill, of positive total weight, the layout
\* returns sizes whose sum is at most the available extent and at least the
\* available extent minus n; with no item it returns no rectangle.
C26_FillSumWithinAvailable ==
    LaidOut =>
        /\ AllFill =>
               /\ ~lay_out.panic
               /\ SumSeq(MainSizes) <= Available
               /\ SumSeq(MainSizes) >= Available - Len(lay_in.lens)
        /\ lay_in.lens = <<>> => lay_out = Returns(<<>>)

\* The call Row::new().layout(Rect(0, 0, 100, 20), [Fixed(30), Fill(1), Fill(2)])
RowExample ==
    /\ lay_in.op = "row"
    /\ lay_in.self = Rect(0, 0, 100, 20)
    /\ lay_in.gap = 0
    /\ lay_in.lens = <<Fixed(30), Fill(1), Fill(2)>>

\* C27 as stated: the example returns the widths [30, 23, 47] or [30, 24, 46],
\* of total at most 100.
C27_ExampleWidthsAsStated ==
    RowExample =>
        /\ ~lay_out.panic
        /\ MainSizes \in {<<30, 23, 47>>, <<30, 24, 46>>}
        /\ SumSeq(MainSizes) <= 100

\* C27, amended: the example returns three rectangles of widths [30, 23, 46],
\* each Fill share rounded toward zero, of total 99.
C27_ExampleWidthsFloor ==
    RowExample =>
        /\ ~lay_out.panic
        /\ MainSizes = <<30, 23, 46>>
        /\ SumSeq(MainSizes) <= 100

C27_Witness ==
    /\ RowExample
    /\ lay_in.justify = "Start"
    /\ lay_out.val[1][3] = Rect(53, 0, 46, 20)

(***************************************************************************)
(* Buffer.                                                                 *)
(***************************************************************************)
\* The position of the last call lies in the buffer the call was made on
InBounds == canvas_op.x < canvas_op.before.width /\ canvas_op.y < canvas_op.before.height

\* C29: the storage length is width x height; a set out of bounds leaves every
\* cell unchanged and a set in bounds changes exactly the cell of its position;
\* a get out of bounds yields no value; after resize every cell is the default
\* cell.
C29_BufferStorageAndBounds ==
    /\ Len(canvas.cells) = canvas.width * canvas.height
    /\ canvas_op.op = "set" /\ ~InBounds => canvas = canvas_op.before
    /\ canvas_op.op = "set" /\ InBounds =>
           /\ canvas.width = canvas_op.before.width
           /\ canvas.height = canvas_op.before.height
           /\ \A k \in 1..Len(canvas.cells) :
                  canvas.cells[k] =
                      IF k = canvas_op.y * canvas.width + canvas_op.x + 1
                      THEN canvas_op.cell
                      ELSE canvas_op.before.cells[k]
    /\ canvas_op.op = "get" =>
           canvas_op.ret = IF InBounds
                           THEN <<canvas.cells[canvas_op.y * canvas.width + canvas_op.x + 1]>>
                           ELSE <<>>
    /\ canvas_op.op = "resize" =>
           /\ canvas.width = canvas_op.x /\ canvas.height = canvas_op.y
           /\ \A k \in 1..Len(canvas.cells) : canvas.cells[k] = DefaultCell

\* A set past the right edge of a written 2 x 2 buffer, at an index inside
\* the storage, has left the buffer as it was
C29_Witness ==
    /\ canvas_op.op = "set"
    /\ canvas_op.x = 2 /\ canvas_op.y = 0
    /\ canvas.width = 2 /\ canvas.height = 2
    /\ canvas.cells[1] # DefaultCell

(***************************************************************************)
(* ViewNode::render.                                                       *)
(***************************************************************************)
\* The texts of the tree last rendered with the areas assigned to them, as
\* <<content, area>>: the tree itself in its area, or the children of a
\* container in the rectangles the container gives them
AssignedTexts ==
    LET node == canvas_op.node IN
    IF node.kind = "Text" THEN {<<node.content, canvas_op.area>>}
    ELSE IF node.kind = "Container"
    THEN LET rects == ChildRects(canvas_op.area, node.direction, Len(node.children)) IN
         {<<node.children[k].content, rects[k]>> :
             k \in {i \in 1..Len(node.children) : node.children[i].kind = "Text"}}
    ELSE {}

\* The position (x, y) lies in the rectangle r
Within(r, x, y) == x >= r.x /\ x < r.x + r.width /\ y >= r.y /\ y < r.y + r.height

\* C28: after a Text node, or a container that splits its area among its
\* children, is rendered into a blank buffer, a cell inside the area of a text
\* holds that text's character for its column on the top row of the area and
\* is blank elsewhere, and every cell outside the areas of the texts is blank.
C28_TextStaysInItsArea ==
    canvas_op.op = "render" /\ canvas_op.node.kind \in {"Text", "Container"}
        /\ (canvas_op.node.kind = "Container" => canvas_op.node.direction # "Stacked") =>
        \A x \in 0..(canvas.width - 1), y \in 0..(canvas.height - 1) :
            LET cell == canvas.cells[y * canvas.width + x + 1] IN
            /\ \A t \in AssignedTexts :
                   Within(t[2], x, y) =>
                       cell = IF y = t[2].y /\ x - t[2].x < Len(t[1])
                              THEN CellWithStyle(t[1][x - t[2].x + 1], NoColor, NoColor, 0)
                              ELSE DefaultCell
            /\ (\A t \in AssignedTexts : ~Within(t[2], x, y)) => cell = DefaultCell

(***************************************************************************)
(* Signal with panicking callbacks.                                        *)
(***************************************************************************)
\* The call of thread t ended in a panic of a subscriber callback
CallbackPanicked(t) == th[t].op = "panicked" /\ th[t].i >= 1

\* The call of thread t ended in a panic of the signal's own code
CallPanicked(t) == th[t].op = "panicked" /\ th[t].i = 0

\* C30: when a subscriber callback has panicked during a notification, the
\* value was written and the version incremented by the mutation that
\* notified, and no later set, update or subscribe call on the signal
\* panics.
C30_ConsistentAfterCallbackPanic ==
    \A t \in Threads :
        /\ CallbackPanicked(t) =>
               /\ hist[t].widx >= 1 /\ hist[t].ver >= 1
               /\ version >= hist[t].ver
        /\ ~CallPanicked(t)
(***************************************************************************)
(* compute_diff: the regions of a changed row.                             *)
(***************************************************************************)
\* The cell at (x, y) differs between old and new
Differs(x, y) == BufferGet(oldBuf, x, y) # BufferGet(newBuf, x, y)

\* columns a..b of row y begin and end on a differing cell and hold no two
\* neighbouring equal cells
RunWithSmallGaps(a, b, y) ==
    /\ Differs(a, y) /\ Differs(b, y)
    /\ \A x \in a..(b - 1) : Differs(x, y) \/ Differs(x + 1, y)

\* nothing differs within two cells to the left of a or to the right of b
CannotExtend(a, b, y) ==
    /\ \A x \in {a - 1, a - 2} : x >= 0 => ~Differs(x, y)
    /\ \A x \in {b + 1, b + 2} : x < newBuf.width => ~Differs(x, y)

\* The maximal runs of unequal cells of every row, joined across single equal cells
MaximalRuns ==
    { Rect(a, y, b - a + 1, 1) :
        <<a, b, y>> \in { t \in (0..(newBuf.width - 1)) \X (0..(newBuf.width - 1))
                                 \X (0..(newBuf.height - 1)) :
                            /\ t[1] <= t[2]
                            /\ RunWithSmallGaps(t[1], t[2], t[3])
                            /\ CannotExtend(t[1], t[2], t[3]) } }

\* C31: for buffers of equal dimensions compute_diff returns exactly the
\* maximal runs of unequal cells of each row, merged across gaps of at most
\* one equal cell, each once: a region begins and ends on a differing cell,
\* one changed cell at (x, y) gives Rect(x, y, 1, 1) and k changed cells in a
\* row from (x, y) give Rect(x, y, k, 1).
C31_RegionsAreMaximalRuns ==
    diffed =>
        /\ Range(dirty) = MaximalRuns
        /\ Len(dirty) = Cardinality(MaximalRuns)

(***************************************************************************)
(* FocusManager::unregister.                                               *)
(***************************************************************************)
\* The ids registered in a Vec of components
IdsOf(comps) == {comps[i].id : i \in 1..Len(comps)}

\* The first focusable entry in tab order, NoFocus when there is none
FirstFocusable(comps) ==
    IF \E i \in 1..Len(comps) : comps[i].focusable
    THEN comps[CHOOSE i \in 1..Len(comps) :
                   comps[i].focusable /\ \A j \in 1..(i - 1) : ~comps[j].focusable].id
    ELSE NoFocus

\* The step is an unregister call
Unregistering == fghost'.op = "unregister"

\* C32: unregister of the currently focused id removes its entry and seats the
\* focus on the first focusable entry in tab order among those that remain, or
\* leaves it unset when none is focusable; unregister of any other id leaves
\* current as it was.
C32_UnregisterReseatsOnFirst ==
    [][Unregistering =>
           IF current # NoFocus /\ current \in IdsOf(components) \ IdsOf(components')
           THEN current' = FirstFocusable(components')
           ELSE current' = current]_vars

\* The focused entry was unregistered and two focusable entries of different
\* order remain: the focus is on the first of them
C32_Witness ==
    /\ fghost.op = "unregister"
    /\ fghost.was # NoFocus
    /\ fghost.was \notin IdsOf(components)
    /\ Len(components) = 2
    /\ components[1].focusable /\ components[2].focusable
    /\ components[1].order < components[2].order
    /\ current = components[1].id

(***************************************************************************)
(* Renderer::render.                                                       *)
(***************************************************************************)
\* The last render call had to treat the whole buffer as dirty
WholeScreen == rcall.was_first \/ rcall.prev = <<>>

\* The regions the last render call had to write
DueRegions ==
    IF WholeScreen THEN <<Rect(0, 0, rcall.buffer.width, rcall.buffer.height)>>
    ELSE ComputeDiff(rcall.prev[1], rcall.buffer)

\* The positions of the buffer inside one of the regions
DuePositions ==
    {p \in (0..(rcall.buffer.width - 1)) \X (0..(rcall.buffer.height - 1)) :
        \E k \in 1..Len(DueRegions) : Covers(DueRegions[k], p[1], p[2])}

\* What a terminal with nothing on it shows after the calls of the last render
Shown ==
    Carried([screen |-> NoScreen, pen |-> DefaultStyle, cursor |-> <<0, 0>>],
            rcall.calls, 1).screen

\* The indices of the flush calls of the last render
Flushes == {k \in 1..Len(rcall.calls) : rcall.calls[k].op = "flush"}

\* C33: the first render call, with or without a previous buffer, and every
\* call without one treat the whole new buffer as the one dirty region, and the
\* first_render flag is clear afterwards; a later call with a previous buffer
\* writes exactly the regions of compute_diff(previous, new).  A call that
\* returns Ok has written every cell of its regions as the buffer has it and
\* nothing else, made no backend call when there is no region, and flushed
\* once, as its last call; a call that a backend Err ended wrote only cells of
\* its regions and did not flush.
C33_RenderWritesDueRegions ==
    rcall.n > 0 =>
        /\ first_render = FALSE
        /\ \A p \in DOMAIN Shown :
               p \in DuePositions /\ <<Shown[p]>> = BufferGet(rcall.buffer, p[1], p[2])
        /\ rcall.ret = "Ok" =>
               /\ DOMAIN Shown = DuePositions
               /\ DueRegions = <<>> => rcall.calls = <<>>
               /\ DueRegions # <<>> => Flushes = {Len(rcall.calls)}
        /\ rcall.ret = "Err" => Flushes = {}

\* A second call, with a previous buffer that differs from the new two-row
\* buffer in one cell, returned Ok
C33_Witness ==
    /\ rcall.n = 2
    /\ rcall.prev # <<>> /\ ~rcall.was_first
    /\ rcall.ret = "Ok"
    /\ Cardinality(DOMAIN Shown) = 1
    /\ rcall.buffer.height = 2

(***************************************************************************)
(* EventRouter: the shape of the hierarchy.                                *)
(***************************************************************************)
\* The component k parent links above c, 0 when the chain ends before
RECURSIVE Up(_, _)
Up(c, k) ==
    IF k = 0 THEN c
    ELSE IF \E e \in hierarchy : e[1] = c
         THEN Up((CHOOSE e \in hierarchy : e[1] = c)[2], k - 1)
         ELSE 0

\* C34: after any register(parent) and unregister calls, whatever the parent
\* arguments, every component has at most one parent and none is its own
\* ancestor, and the path construction of route ends for every target.
C34_HierarchyIsForest ==
    /\ \A a, b \in hierarchy : a[1] = b[1] => a = b
    /\ \A c \in ComponentIds : \A k \in 1..Cardinality(ComponentIds) : Up(c, k) # c
    /\ \A c \in ComponentIds : ~PathLoops(c, {c})
    /\ routed # <<>> => routed[1].result # "never"

(***************************************************************************)
(* Flex::calculate.                                                        *)
(***************************************************************************)
\* A Flex::calculate call has returned
FlexCalled == lay_in.op = "flex"

\* The main-axis size of the container of the call
FlexMainSize ==
    IF lay_in.direction = "Row" THEN lay_in.self.width ELSE lay_in.self.height

\* The main-axis sizes of the rectangles returned
FlexSizes ==
    [i \in 1..Len(lay_out.val[1]) |->
        IF lay_in.direction = "Row" THEN lay_out.val[1][i].width
        ELSE lay_out.val[1][i].height]

\* The base sizes exceed the container, every item has a positive shrink
\* factor and none has a min
MustShrink ==
    /\ SumSeq(CalculateBaseSizes(lay_in.items, FlexMainSize)) > FlexMainSize
    /\ \A i \in 1..Len(lay_in.items) :
           lay_in.items[i].shrink > 0 /\ lay_in.items[i].min = <<>>

\* C35: when the base sizes of the items exceed the container's main-axis
\* size and every item has a positive shrink factor and no min, the main-axis
\* sizes Flex::calculate returns sum to at most the container's main-axis size.
C35_ShrunkItemsFit ==
    FlexCalled /\ MustShrink => SumSeq(FlexSizes) <= FlexMainSize

\* C36: a set or update call always returns when user closures are re-entrant:
\* whenever a thread is in a set or update call of the program, with or without
\* a closure of that call calling the signal, the thread is later idle again.
C36_ReentrantCallsReturn ==
    \A t \in Threads :
        (OuterCall(t).op \in {"set", "update"}) ~> (th[t].op = "idle")

\* C37: when two threads have called set concurrently and both calls have
\* returned, the value most recently delivered to each surviving subscriber
\* equals the value get() returns, the stored value.
BothSetsReturned ==
    /\ ghost.completed = 2
    /\ \A t \in Threads : th[t].op = "idle"

Surviving == Range(subscribers) \cap handles

C37_LastDeliveredIsValue ==
    BothSetsReturned =>
        \A s \in Surviving : delivered[s] # <<>> => delivered[s] = <<value>>

(***************************************************************************)
(* FocusManager: what `current` refers to.                                 *)
(***************************************************************************)
\* C39: in every reachable state the current focus, when set, is the id of a
\* registered entry whose focusable flag is true.
C39_CurrentIsFocusableEntry ==
    current # NoFocus =>
        \E i \in 1..Len(components) :
            components[i].id = current /\ components[i].focusable

(***************************************************************************)
(* Store: remove, clear and contains against handles.                      *)
(***************************************************************************)
\* Thread t takes the step of its call that is labelled l
StoreStep(t, l) == SAtLabel(t, l) /\ sth'[t].pc = sth[t].pc + 1

\* The signals that exist are left as they are
SignalsKept == \A g \in DOMAIN heap : heap'[g] = heap[g]

\* C40: remove and clear unbind the key (every key) and leave every signal as
\* it is, so handles obtained earlier stay usable; a get_or_create or set that
\* finds the key unbound binds it to a new signal, none of those that exist,
\* with the given value, version 0 and no subscriber; a write or a subscribe
\* through a handle changes the signal of that handle and no other, and no
\* binding; contains answers true exactly if more keys were created than
\* removed or cleared (the store has one key).
C40_OldHandlesAreDetached ==
    [][\A t \in Threads :
          /\ StoreStep(t, "remove") =>
                 /\ signals'[sth[t].key] = NoSig
                 /\ \A k \in StoreKeys \ {sth[t].key} : signals'[k] = signals[k]
                 /\ heap' = heap
          /\ StoreStep(t, "clear") =>
                 /\ \A k \in StoreKeys : signals'[k] = NoSig
                 /\ heap' = heap
          /\ StoreStep(t, "lookup") /\ signals[sth[t].key] = NoSig =>
                 /\ signals'[sth[t].key] \in DOMAIN heap' \ DOMAIN heap
                 /\ sth'[t].sig = signals'[sth[t].key]
                 /\ heap'[signals'[sth[t].key]] =
                        [ty |-> sth[t].ty, value |-> sth[t].arg, version |-> 0,
                         subs |-> <<>>]
                 /\ SignalsKept
          /\ \/ StoreStep(t, "sigwrite") \/ StoreStep(t, "sigbump")
             \/ StoreStep(t, "sigpush") =>
                 /\ signals' = signals
                 /\ DOMAIN heap' = DOMAIN heap
                 /\ \A g \in DOMAIN heap \ {sth[t].sig} : heap'[g] = heap[g]
          /\ StoreStep(t, "has") =>
                 (sth'[t].out = "true" <=> sghost.created > sghost.removed)
                 /\ sth'[t].out \in {"true", "false"}]_vars

\* The key was bound, unbound and bound again; a handle of the first signal
\* was written through and subscribed through: the first signal has the
\* written value and the subscriber, the signal now bound has neither
C40_Witness ==
    /\ Len(heap) = 2
    /\ signals["count"] = 2
    /\ sghost.removed = 1
    /\ heap[1].value = 7 /\ heap[1].version = 1 /\ heap[1].subs = <<0>>
    /\ heap[2].value = 999 /\ heap[2].version = 1 /\ heap[2].subs = <<>>

(***************************************************************************)
(* App::run: the terminal against the front buffer.                        *)
(***************************************************************************)
\* The positions of a buffer
PositionsOf(buf) == (0..(buf.width - 1)) \X (0..(buf.height - 1))

\* C38: after every frame the App loop has completed (the buffers are swapped,
\* the frame's buffer is prev_buffer), every cell of the terminal that was
\* written and lies inside that buffer shows the character and style of the
\* buffer's cell at its position.
C38_TerminalShowsFrontBuffer ==
    AppAt("sleep") =>
        \A p \in DOMAIN term.screen \cap PositionsOf(prev_buffer) :
            term.screen[p] = prev_buffer.cells[BufferIndex(prev_buffer, p[1], p[2])]

====
